---------------------------- MODULE Spec2Model ----------------------------
(***************************************************************************)
(* BookForge PDF block analyzer (python/pdf_analyzer.py): the PDFAnalyzer  *)
(* object, its block extraction, region detection, classification,        *)
(* category synthesis, text export and similarity lookup.                 *)
(*                                                                         *)
(* Units.  Coordinates and page sizes are integers counting HALF units    *)
(* (a value v stands for the float v/2, which is exact in binary, so the   *)
(* code's float subtraction, rounding and division agree with the integer  *)
(* arithmetic used here).  A span's font size is an integer counting       *)
(* hundredths of a point; a block's font_size (the code's                  *)
(* round(size, 1)) is an integer counting tenths of a point.  Texts are    *)
(* strings.                                                                *)
(***************************************************************************)
EXTENDS Integers, Sequences, FiniteSets, Bags, TLC

VARIABLES
    blocks,           \* self.blocks: the list of TextBlock records
    categories,       \* self.categories: dict category id -> Category
    doc,              \* self.doc: path of the document handle held, or None
    pdf_path,         \* self.pdf_path
    page_dimensions,  \* self.page_dimensions
    result,           \* the value returned (or the error raised) by the last call
    analyzed,         \* for each (path, max_pages) analyzed with success so far: the
                      \* blocks and the category ids that the first such call returned
    exported,         \* the first export_text call since the blocks last changed: its
                      \* enabled set, its text, and whether the set was exported again
    nAnalyze,         \* number of analyze calls made so far
    cIn,              \* input of the pure-function specifications and of the runs
                      \* of SpecRedact
    cOut              \* their output; in SpecProcesses, the analyzer process and
                      \* the XTTS server

vars == <<blocks, categories, doc, pdf_path, page_dimensions, result, analyzed,
          exported, nAnalyze, cIn, cOut>>

None == "None"

-----------------------------------------------------------------------------
(* Bounds of the model *)

MaxAnalyze == 3       \* analyze calls per behaviour

-----------------------------------------------------------------------------
(* Python primitives *)

Min(a, b) == IF a < b THEN a ELSE b

\* round(v) of the float v/2: nearest integer, a tie going to the even one.
RoundHalfEven(v) ==
    LET q == v \div 2
    IN  IF v % 2 = 0 THEN q
        ELSE IF q % 2 = 0 THEN q ELSE q + 1

\* f"{v:.0f}" of the float v/2: the digits of round(v), with the sign of the
\* float kept when a negative one rounds to zero ("-0").
Format0f(v) ==
    IF v < 0 /\ RoundHalfEven(v) = 0 THEN "-0" ELSE ToString(RoundHalfEven(v))

\* int(v/2) for v >= 0
IntTrunc(v) == v \div 2

\* The binary floats are IEEE 754 doubles: 53 bits, a tie going to the even
\* mantissa.  A real x is given as N/D + e/(D * 2^60), N >= 0, D > 0, e far
\* smaller than the unit of N/D; the float nearest to it is given the same
\* way, by the offset that replaces e.  D < 20000 keeps every intermediate
\* value within 32 bits.

\* The float nearest to x when the floats about x are the M / 2^k.  In
\* offsets those lie G apart, one of them at -rho * 2^(60 - k), whose M is
\* odd when oddBelow.
NearestOnGrid(N, D, e, k) ==
    LET rho == ((N % D) * (((((2^20 % D) * (2^20 % D)) % D) * (2^(k - 40) % D)) % D)) % D
        oddBelow ==
            ((N % (2 * D)) * (((((2^20 % (2 * D)) * (2^20 % (2 * D))) % (2 * D))
                                 * (2^(k - 40) % (2 * D))) % (2 * D))) % (2 * D) >= D
        G == D * 2^(60 - k)
        y == e + rho * 2^(60 - k)
        up == \/ 2 * (y % G) > G
              \/ 2 * (y % G) = G /\ (((y \div G) % 2 = 1) # oddBelow)
    IN  ((y \div G) + (IF up THEN 1 ELSE 0)) * G - rho * 2^(60 - k)

\* The float nearest to x, which is 0 or lies in [2^-8, 2^13): k is 52 - j
\* for the j with 2^j <= x < 2^(j+1)
NearestFloat(N, D, e) ==
    IF N = 0 THEN 0
    ELSE NearestOnGrid(N, D, e,
             52 - (CHOOSE j \in -8..12 :
                      IF j >= 0
                      THEN /\ D * 2^j < N \/ (D * 2^j = N /\ e >= 0)
                           /\ N < D * 2^(j + 1) \/ (N = D * 2^(j + 1) /\ e < 0)
                      ELSE /\ D < N * 2^(-j) \/ (D = N * 2^(-j) /\ e >= 0)
                           /\ N * 2^(-j) < 2 * D \/ (N * 2^(-j) = 2 * D /\ e < 0)))

\* round(size, 1): hundredths -> tenths.  A size ending in 5 goes where the
\* float nearest to h/100 lies: above the decimal tie it rounds up, below
\* it down, and on it (h/100 is a float) to the even tenth.
Round1(h) ==
    IF h % 10 < 5 THEN h \div 10
    ELSE IF h % 10 > 5 THEN h \div 10 + 1
    ELSE LET f == NearestFloat(h, 100, 0)
         IN  IF f > 0 \/ (f = 0 /\ (h \div 10) % 2 = 1) THEN h \div 10 + 1
             ELSE h \div 10

CharAt(s, i) == SubSeq(s, i, i)

\* not s.strip(): every character is one str.strip() removes.  Those are the
\* characters of str.isspace(): tab, line feed, vertical tab, form feed,
\* carriage return, the separators U+001C..U+001F, space, U+0085 and U+00A0,
\* and the Unicode spaces beyond U+00FF, which no string here can hold.
IsBlank(s) ==
    \A i \in 1..Len(s) :
        CharAt(s, i) \in {" ", "\t", "\n", "\r", "\f", "", "", "",
                          "", "", "", " "}

\* s[:n]
Prefix(s, n) == SubSeq(s, 1, Min(n, Len(s)))

\* c.lower(): the letters A..Z and, of U+00C0..U+00DE, all but the
\* multiplication sign have a lower case, 32 code points on; no other
\* character up to U+00FF has one, and no string here holds one beyond
LowerChar(c) ==
    CASE c = "A" -> "a" [] c = "B" -> "b" [] c = "C" -> "c" [] c = "D" -> "d"
      [] c = "E" -> "e" [] c = "F" -> "f" [] c = "G" -> "g" [] c = "H" -> "h"
      [] c = "I" -> "i" [] c = "J" -> "j" [] c = "K" -> "k" [] c = "L" -> "l"
      [] c = "M" -> "m" [] c = "N" -> "n" [] c = "O" -> "o" [] c = "P" -> "p"
      [] c = "Q" -> "q" [] c = "R" -> "r" [] c = "S" -> "s" [] c = "T" -> "t"
      [] c = "U" -> "u" [] c = "V" -> "v" [] c = "W" -> "w" [] c = "X" -> "x"
      [] c = "Y" -> "y" [] c = "Z" -> "z" [] c = "À" -> "à" [] c = "Á" -> "á"
      [] c = "Â" -> "â" [] c = "Ã" -> "ã" [] c = "Ä" -> "ä" [] c = "Å" -> "å"
      [] c = "Æ" -> "æ" [] c = "Ç" -> "ç" [] c = "È" -> "è" [] c = "É" -> "é"
      [] c = "Ê" -> "ê" [] c = "Ë" -> "ë" [] c = "Ì" -> "ì" [] c = "Í" -> "í"
      [] c = "Î" -> "î" [] c = "Ï" -> "ï" [] c = "Ð" -> "ð" [] c = "Ñ" -> "ñ"
      [] c = "Ò" -> "ò" [] c = "Ó" -> "ó" [] c = "Ô" -> "ô" [] c = "Õ" -> "õ"
      [] c = "Ö" -> "ö" [] c = "Ø" -> "ø" [] c = "Ù" -> "ù" [] c = "Ú" -> "ú"
      [] c = "Û" -> "û" [] c = "Ü" -> "ü" [] c = "Ý" -> "ý" [] c = "Þ" -> "þ"
      [] OTHER -> c

RECURSIVE Lower(_)
\* s.lower()
Lower(s) == IF Len(s) = 0 THEN "" ELSE LowerChar(CharAt(s, 1)) \o Lower(SubSeq(s, 2, Len(s)))

\* sub in s
Contains(s, sub) ==
    \E i \in 1..(Len(s) - Len(sub) + 1) : SubSeq(s, i, i + Len(sub) - 1) = sub

\* flags & 2**bit
HasBit(flags, bit) == (flags \div (2 ^ bit)) % 2 = 1

RECURSIVE JoinWith(_, _)
\* sep.join(parts)
JoinWith(sep, parts) ==
    IF Len(parts) = 0 THEN ""
    ELSE IF Len(parts) = 1 THEN parts[1]
    ELSE parts[1] \o sep \o JoinWith(sep, Tail(parts))

\* A defaultdict(int) is a sequence of <<key, count>> pairs in insertion order.
DictAdd(d, k, n) ==
    IF \E i \in 1..Len(d) : d[i][1] = k
    THEN [i \in 1..Len(d) |-> IF d[i][1] = k THEN <<k, d[i][2] + n>> ELSE d[i]]
    ELSE Append(d, <<k, n>>)

\* max(d.items(), key=lambda x: x[1])[0]: the first key, in insertion order,
\* of maximal count
MaxKey(d) ==
    LET i == CHOOSE i \in 1..Len(d) :
                 /\ \A j \in 1..Len(d) : d[j][2] <= d[i][2]
                 /\ \A j \in 1..(i - 1) : d[j][2] < d[i][2]
    IN  d[i][1]

\* The code point of the character c: those of U+0020..U+007E but the grave
\* accent, of U+00A0..U+00FF, and the white space below U+00A0
Ord(c) ==
    LET low == " !\"#$%&'()*+,-./0123456789:;<=>?@ABCDEFGHIJKLMNOPQRSTUVWXYZ[\\]^_"
        high == "abcdefghijklmnopqrstuvwxyz{|}~"
        latin == " ¡¢£¤¥¦§¨©ª«¬­®¯°±²³´µ¶·¸¹º»¼½¾¿ÀÁÂÃÄÅÆÇÈÉÊËÌÍÎÏÐÑÒÓÔÕÖ×ØÙÚÛÜÝÞßàáâãäåæçèéêëìíîïðñòóôõö÷øùúûüýþÿ"
    IN  IF \E i \in 1..Len(low) : CharAt(low, i) = c
        THEN 31 + (CHOOSE i \in 1..Len(low) : CharAt(low, i) = c)
        ELSE IF \E i \in 1..Len(high) : CharAt(high, i) = c
        THEN 96 + (CHOOSE i \in 1..Len(high) : CharAt(high, i) = c)
        ELSE IF \E i \in 1..Len(latin) : CharAt(latin, i) = c
        THEN 159 + (CHOOSE i \in 1..Len(latin) : CharAt(latin, i) = c)
        ELSE CASE c = "\t" -> 9 [] c = "\n" -> 10 [] c = "" -> 11 [] c = "\f" -> 12
               [] c = "\r" -> 13 [] c = "" -> 28 [] c = "" -> 29 [] c = "" -> 30
               [] c = "" -> 31 [] c = "" -> 133

RECURSIVE Encode(_)
\* s.encode(): the bytes of UTF-8, one for a code point below 128, two for
\* the others
Encode(s) ==
    IF Len(s) = 0 THEN <<>>
    ELSE IF Len(s) > 1
    THEN Encode(SubSeq(s, 1, Len(s) \div 2)) \o Encode(SubSeq(s, Len(s) \div 2 + 1, Len(s)))
    ELSE CHOOSE bytes \in {IF c < 128 THEN <<c>>
                           ELSE <<192 + (c \div 64), 128 + (c % 64)>> : c \in {Ord(s)}} : TRUE

\* MD5 (RFC 1321).  A word of 32 bits is the pair <<high, low>> of its halves
\* of 16 bits.  A value that is used more than once is computed once, as
\* the one member of a set.

\* floor(abs(sin(i + 1)) * 2^32) for i = 0..63, the high half of each and
\* then the low one
Md5K ==
    <<55146, 42104, 59591, 46934, 9248, 28891, 49597, 52974, 62844, 4015,
      18311, 50730, 43056, 17939, 64838, 38145, 27008, 39128, 35652, 63407,
      65535, 23473, 35164, 55230, 27536, 4386, 64920, 29075, 42617, 17294,
      18868, 2081, 63006, 9570, 49216, 45888, 9822, 23121, 59830, 51114,
      54831, 4189, 580, 5203, 55457, 59009, 59347, 64456, 8673, 52710,
      49975, 2006, 62677, 3463, 17754, 5357, 43491, 59653, 64751, 41976,
      26479, 729, 36138, 19594, 65530, 14658, 34673, 63105, 28061, 24866,
      64997, 14348, 42174, 59972, 19422, 53161, 63163, 19296, 48831, 48240,
      10395, 32454, 60065, 10234, 54511, 12421, 1160, 7429, 55764, 53305,
      59099, 39397, 8098, 31992, 50348, 22117, 62505, 8772, 17194, 65431,
      43924, 9127, 64659, 41017, 25947, 22979, 36620, 52370, 65519, 62589,
      34180, 24017, 28584, 32335, 65068, 59104, 41729, 17172, 19976, 4513,
      63315, 32386, 48442, 62005, 10967, 53947, 60294, 54161>>

\* The function of round r, F, G, H or I, of the halves b, c and d, bit by
\* bit: the sum of the 2^k whose bit is set
Md5Mix(r, b, c, d) ==
    BagCardinality(
        [k \in {k \in 0..15 :
                   CASE r = 0 -> IF (b \div 2^k) % 2 = 1 THEN (c \div 2^k) % 2 = 1
                                 ELSE (d \div 2^k) % 2 = 1
                     [] r = 1 -> IF (d \div 2^k) % 2 = 1 THEN (b \div 2^k) % 2 = 1
                                 ELSE (c \div 2^k) % 2 = 1
                     [] r = 2 -> ((b \div 2^k) + (c \div 2^k) + (d \div 2^k)) % 2 = 1
                     [] r = 3 -> ((c \div 2^k) % 2 = 1)
                                     # ((b \div 2^k) % 2 = 1 \/ (d \div 2^k) % 2 = 0)}
            |-> 2^k])

\* The sum, modulo 2^32, of words whose high halves add up to hi and whose
\* low halves add up to lo
Md5Word(hi, lo) == <<(hi + lo \div 65536) % 65536, lo % 65536>>

\* Operation i of the 64 on the block of words M; v is <<A, B, C, D>>.  w is
\* the sum A + f + K[i] + M[g], where f is the function of the round of B, C
\* and D; it is turned left by n bits, which for n >= 16 swaps its halves
\* first, and added to B.
Md5Step(v, M, i) ==
    CHOOSE after \in
        {<<v[4],
           Md5Word(v[2][1] + ((w[(n \div 16) + 1] * 2^(n % 16)) % 65536)
                       + (w[2 - (n \div 16)] \div 2^(16 - (n % 16))),
                   v[2][2] + ((w[2 - (n \div 16)] * 2^(n % 16)) % 65536)
                       + (w[(n \div 16) + 1] \div 2^(16 - (n % 16)))),
           v[2], v[3]>> :
             w \in {Md5Word(v[1][1] + f[1] + Md5K[2 * i + 1] + m[1],
                            v[1][2] + f[2] + Md5K[2 * i + 2] + m[2]) :
                        f \in {[h \in 1..2 |-> Md5Mix(i \div 16, v[2][h], v[3][h], v[4][h])]},
                        m \in {M[(CASE i < 16 -> i [] i \in 16..31 -> (5 * i + 1) % 16
                                    [] i \in 32..47 -> (3 * i + 5) % 16
                                    [] i >= 48 -> (7 * i) % 16) + 1]}},
             n \in {<<7, 12, 17, 22, 5, 9, 14, 20, 4, 11, 16, 23, 6, 10, 15, 21>>
                        [4 * (i \div 16) + (i % 4) + 1]}} : TRUE

RECURSIVE Md5Steps(_, _, _, _)
\* The operations from the from-th up to, and without, the to-th, the first
\* half of them carried out before the second is entered
Md5Steps(v, M, from, to) ==
    IF to = from + 1 THEN Md5Step(v, M, from)
    ELSE CHOOSE after \in {Md5Steps(half, M, (from + to) \div 2, to) :
                               half \in {Md5Steps(v, M, from, (from + to) \div 2)}} : TRUE

RECURSIVE Md5Blocks(_, _, _)
\* The blocks of 64 bytes of the padded message from the one at offset at
\* on, the words of a block read with the low byte first
Md5Blocks(padded, at, v) ==
    IF at >= Len(padded) THEN v
    ELSE CHOOSE after \in
             {Md5Blocks(padded, at + 64,
                        [j \in 1..4 |-> Md5Word(v[j][1] + w[j][1], v[j][2] + w[j][2])]) :
                  w \in {Md5Steps(v, M, 0, 64) :
                            M \in {[j \in 1..16 |->
                                       <<padded[at + 4 * j - 1] + 256 * padded[at + 4 * j],
                                         padded[at + 4 * j - 3] + 256 * padded[at + 4 * j - 2]>>]}}} :
             TRUE

\* hashlib.md5(bytes).hexdigest().  The message is padded with the byte 128,
\* zeros up to 8 bytes short of a multiple of 64, and its length in bits in
\* 8 bytes; d[k] is the k-th byte of the words A, B, C, D, low byte first, as
\* two digits.
Md5(bytes) ==
    CHOOSE digest \in
        {d[1] \o d[2] \o d[3] \o d[4] \o d[5] \o d[6] \o d[7] \o d[8] \o d[9] \o d[10]
               \o d[11] \o d[12] \o d[13] \o d[14] \o d[15] \o d[16] :
             d \in {[k \in 1..16 |->
                        CHOOSE digits \in
                            {CharAt("0123456789abcdef", (b \div 16) + 1)
                                 \o CharAt("0123456789abcdef", (b % 16) + 1) :
                                 b \in {(v[((k - 1) \div 4) + 1][2 - (((k - 1) % 4) \div 2)]
                                             \div 256^((k - 1) % 2)) % 256}} : TRUE] :
                        v \in {Md5Blocks(padded, 0,
                                         <<<<26437, 8961>>, <<61389, 43913>>,
                                           <<39098, 56574>>, <<4146, 21622>>>>) :
                                   padded \in {bytes \o <<128>>
                                                   \o [k \in 1..((119 - (Len(bytes) % 64)) % 64) |-> 0]
                                                   \o [k \in 1..8 |->
                                                          IF k > 4 THEN 0
                                                          ELSE ((8 * Len(bytes)) \div 256^(k - 1)) % 256]}}}} :
            TRUE

\* hashlib.md5(s.encode()).hexdigest()[:n].  The digests of the category type
\* names and of the keys of the blocks of the documents here are written
\* out, each the value of Md5(Encode(s)); any other digest is computed.
Md5Hex(s, n) ==
    Prefix(CASE s = "image" -> "78805a221a988e79ef3f42d7c5bfd418"
             [] s = "footnote_ref" -> "f2a275160fca6d9c5ed54d9dc72c33ab"
             [] s = "header" -> "099fb995346f31c749f6e40db0f395e3"
             [] s = "footer" -> "251d164643533a527361dbe1a7b9235d"
             [] s = "footnote" -> "7f3c72c041d84183281aa005a8e5a96a"
             [] s = "caption" -> "7a7dc1cda8a5f2b4be2dcb815907d56e"
             [] s = "title" -> "d5d3db1765287eef77d7927cc956f50a"
             [] s = "heading" -> "f74f539fcf46601998e5b17104c7f4c1"
             [] s = "subheading" -> "79a535150d7e4ea04a2236a694afee0d"
             [] s = "quote" -> "7a674c327bfa07f7c1204fb38ca6ef3b"
             [] s = "body" -> "841a2d689ad86bd1611447453c22c6fc"
             [] s = "0:0:BOOK TITLE" -> "b22b3d8224127fca18b620aff6e3fd20"
             [] s = "0:0:Figure 1" -> "a13de9fb9654d818a85a75057914ef65"
             [] s = "0:0:It was the best of times, it was the worst." -> "c97613606ec29fb179c83904bac9c94c"
             [] s = "0:0:Part Two" -> "789c9499a40c7f4f7973f66f4a3f4292"
             [] s = "0:1:An Author" -> "00ed134ea4bd65738bcf21f111fa60fb"
             [] s = "0:1:Figure 1" -> "904c34da7595ff5d3d745456a14fec89"
             [] s = "0:1:Second page text." -> "d78ea648eb803e9667c641445c032734"
             [] s = "0:1:abcd efgh" -> "0ee940e0a928b8392a78ae5084e702ca"
             [] s = "0:2:2" -> "53f8dd44630189722094afebab962b47"
             [] s = "0:2:Figure 1" -> "b32e35462b2f47166120b5aec6ea0cde"
             [] s = "0:2:ijkl mnop" -> "6fde61a230254ec42bcf96d1ef413434"
             [] s = "0:3:Summary" -> "b940199dd40c4bff3828efa9d9d76859"
             [] s = "0:5:Figure 1: a fox" -> "94521d9879810e9b7358f6ca0f95f76f"
             [] s = "0:img:0,0" -> "395a7b9b4291909877b64f7b1ca51da1"
             [] s = "0:img:0:100,100" -> "3a2409785c16252904ad830d36e69033"
             [] s = "0:img:0:5,5" -> "d4934db113b56b0c69c223fc9babbea3"
             [] s = "0:img:100,100" -> "f2900271ba93a7c9413aa10b730198a1"
             [] s = "0:img:1:100,100" -> "dddd1deb0404348312fad23b035d88e0"
             [] s = "0:img:1:5,5" -> "cccdb2bd84caebc0726d194070747bed"
             [] s = "0:img:2:100,100" -> "8c05c729e356768ec078d816b424ee2f"
             [] s = "0:img:2:5,5" -> "28415fa5c35f08c3ee12206c445094ad"
             [] s = "0:img:4:300,500" -> "faaa2604543eb91be15a88b69468af77"
             [] s = "0:img:4:50,50" -> "7d2026ba727e1eb25360ec9bfc508350"
             [] s = "0:img:5,5" -> "ab4f18a2d8fa3bd77c5e6c9226ea4507"
             [] s = "1:0:Chapter One" -> "2cfdf338e23081fb46104b026898da61"
             [] s = "1:0:Part Two" -> "27d26d02328cbae6577e91bb124b1278"
             [] s = "1:1:Introduction" -> "7cddcccf3f99d78e65f6f2d051598f50"
             [] s = "1:1:abcd efgh" -> "d2ea46dba30d53bdee3466a20f631093"
             [] s = "1:2:The quick brown fox 1 jumps over the dog." -> "a71682a59fab4ff0a4147e94a9d96fac"
             [] s = "1:2:ijkl mnop" -> "3541f71f235ab4c167af473fe03d789a"
             [] s = "1:3:Summary" -> "56b2e362e8221e2c63f1d4f94abff4c8"
             [] s = "1:4:1 See the appendix." -> "fd04fd07561afb24fbfbe496dcdf7f75"
             [] s = "1:5:12" -> "3e1e31bbb112882d5b2309c27f6db844"
             [] s = "1:img:0:100,100" -> "292d69da11dc1512ed0d4ed6e90201f5"
             [] s = "1:img:100,100" -> "80d2acc8c59b296f6e1b8975fd105e4e"
             [] s = "1:img:100,250" -> "8f5ecdc0b10e6bdce2fd1615e82be732"
             [] s = "1:img:4:50,50" -> "12139037cc121fb8892ee9413154fffe"
             [] s = "1:img:50,50" -> "15620df8a127a7e59f5ddbb4fde4a94b"
             [] OTHER -> Md5(Encode(s)),
           n)


-----------------------------------------------------------------------------
(* Block extraction: PDFAnalyzer._extract_page_blocks *)

\* The TextBlock appended for an image (lines 163-178 and 206-221)
ImageBlock(page_num, bbox, block_id) ==
    LET block_width == bbox[3] - bbox[1]
        block_height == bbox[4] - bbox[2]
    IN  [id |-> block_id, page |-> page_num, x |-> bbox[1], y |-> bbox[2],
         width |-> block_width, height |-> block_height,
         text |-> "[Image " \o ToString(IntTrunc(block_width)) \o "x"
                     \o ToString(IntTrunc(block_height)) \o "]",
         font_size |-> 0, font_name |-> "image", char_count |-> 0,
         region |-> "body", category_id |-> "",
         is_bold |-> FALSE, is_italic |-> FALSE, is_superscript |-> FALSE,
         is_image |-> TRUE, line_count |-> 0]

\* block_width < 20 or block_height < 20
TooSmall(bbox) == bbox[3] - bbox[1] < 2 * 20 \/ bbox[4] - bbox[2] < 2 * 20

\* A plausible slip: the key taken from the coordinates as they are
RectKey_Unrounded(bbox) == bbox

\* rect_key = (round(x), round(y), round(x2), round(y2))
RectKey(bbox) ==
    <<RoundHalfEven(bbox[1]), RoundHalfEven(bbox[2]),
      RoundHalfEven(bbox[3]), RoundHalfEven(bbox[4])>>

\* f"{page_num}:img:{x:.0f},{y:.0f}" hashed
ImageInfoId(page_num, bbox) ==
    Md5Hex(ToString(page_num) \o ":img:" \o Format0f(bbox[1]) \o ","
             \o Format0f(bbox[2]), 12)

\* f"{page_num}:img:{block_idx}:{x:.0f},{y:.0f}" hashed
ImageBlockId(page_num, block_idx, bbox) ==
    Md5Hex(ToString(page_num) \o ":img:" \o ToString(block_idx) \o ":"
             \o Format0f(bbox[1]) \o ","
             \o Format0f(bbox[2]), 12)

\* f"{page_num}:{block_idx}:{combined_text[:50]}" hashed
TextBlockId(page_num, block_idx, combined_text) ==
    Md5Hex(ToString(page_num) \o ":" \o ToString(block_idx) \o ":"
             \o Prefix(combined_text, 50), 12)

RECURSIVE ImageInfoLoop(_, _, _, _)
\* The loop over page.get_image_info() (lines 144-178).  st holds the blocks
\* appended so far and the image_rects set; an entry without bbox is <<>>.
ImageInfoLoop(page_num, infos, i, st) ==
    IF i > Len(infos) THEN st
    ELSE LET bbox == infos[i]
         IN  IF bbox = <<>> \/ TooSmall(bbox) \/ RectKey(bbox) \in st.image_rects
             THEN ImageInfoLoop(page_num, infos, i + 1, st)
             ELSE ImageInfoLoop(page_num, infos, i + 1,
                      [blocks |-> Append(st.blocks,
                                     ImageBlock(page_num, bbox, ImageInfoId(page_num, bbox))),
                       image_rects |-> st.image_rects \cup {RectKey(bbox)}])

RECURSIVE AllSpans(_)
\* for line in block["lines"]: for span in line["spans"]
AllSpans(lines) ==
    IF Len(lines) = 0 THEN <<>> ELSE lines[1] \o AllSpans(Tail(lines))

SpanIsBold(span) == Contains(Lower(span.font), "bold") \/ HasBit(span.flags, 4)

SpanIsItalic(span) ==
    \/ Contains(Lower(span.font), "italic")
    \/ Contains(Lower(span.font), "oblique")
    \/ HasBit(span.flags, 1)

SpanIsSuperscript(span) == HasBit(span.flags, 0)

EmptyAcc ==
    [all_text |-> <<>>, font_sizes |-> <<>>, font_names |-> <<>>, bold_chars |-> 0,
     italic_chars |-> 0, superscript_chars |-> 0, total_chars |-> 0]

RECURSIVE SpanLoop(_, _, _)
\* The accumulation over the spans of one layout block (lines 236-257)
SpanLoop(spans, i, acc) ==
    IF i > Len(spans) THEN acc
    ELSE LET span == spans[i]
             char_len == Len(span.text)
         IN  IF IsBlank(span.text) THEN SpanLoop(spans, i + 1, acc)
             ELSE SpanLoop(spans, i + 1,
                    [all_text |-> Append(acc.all_text, span.text),
                     font_sizes |-> DictAdd(acc.font_sizes, Round1(span.size), char_len),
                     font_names |-> DictAdd(acc.font_names, span.font, char_len),
                     bold_chars |-> acc.bold_chars
                                      + (IF SpanIsBold(span) THEN char_len ELSE 0),
                     italic_chars |-> acc.italic_chars
                                      + (IF SpanIsItalic(span) THEN char_len ELSE 0),
                     superscript_chars |-> acc.superscript_chars
                                      + (IF SpanIsSuperscript(span) THEN char_len ELSE 0),
                     total_chars |-> acc.total_chars + char_len])

\* A plausible slip: the header decided by position and line count alone
DetectRegion_NoLengthGate(y, page_height, text_len, line_count) ==
    IF 100 * y < 5 * page_height /\ line_count <= 3 THEN "header"
    ELSE IF 100 * y < 8 * page_height /\ line_count <= 2 THEN "header"
    ELSE IF 100 * y > 92 * page_height \/ (100 * y > 88 * page_height /\ text_len < 50)
         THEN "footer"
    ELSE IF 100 * y > 70 * page_height THEN "lower"
    ELSE "body"

\* Region detection (lines 271-291): y and page_height in half units, so
\* y_pct < 0.05 is 20*y < page_height, and so on.
DetectRegion(y, page_height, text_len, line_count) ==
    IF 100 * y < 5 * page_height /\ text_len < 150 /\ line_count <= 3 THEN "header"
    ELSE IF 100 * y < 8 * page_height /\ text_len < 80 /\ line_count <= 2 THEN "header"
    ELSE IF 100 * y > 92 * page_height \/ (100 * y > 88 * page_height /\ text_len < 50)
         THEN "footer"
    ELSE IF 100 * y > 70 * page_height THEN "lower"
    ELSE "body"

\* The TextBlock built from one text layout block (lines 224-312)
TextBlockOf(page_num, block_idx, block, page_height) ==
    LET bbox == block.bbox
        acc == SpanLoop(AllSpans(block.lines), 1, EmptyAcc)
        line_count == Len(block.lines)
        combined_text == JoinWith(" ", acc.all_text)
        dominant_size == IF Len(acc.font_sizes) > 0 THEN MaxKey(acc.font_sizes) ELSE 100
        dominant_font == IF Len(acc.font_names) > 0 THEN MaxKey(acc.font_names)
                         ELSE "unknown"
    IN  [id |-> TextBlockId(page_num, block_idx, combined_text),
         page |-> page_num, x |-> bbox[1], y |-> bbox[2],
         width |-> bbox[3] - bbox[1], height |-> bbox[4] - bbox[2],
         text |-> combined_text,
         font_size |-> dominant_size, font_name |-> dominant_font,
         char_count |-> Len(combined_text),
         region |-> DetectRegion(bbox[2], page_height, Len(combined_text), line_count),
         category_id |-> "",
         is_bold |-> acc.total_chars > 0 /\ 2 * acc.bold_chars > acc.total_chars,
         is_italic |-> acc.total_chars > 0 /\ 2 * acc.italic_chars > acc.total_chars,
         is_superscript |-> acc.total_chars > 0
                              /\ 2 * acc.superscript_chars > acc.total_chars,
         is_image |-> FALSE, line_count |-> line_count]

RECURSIVE LayoutLoop(_, _, _, _, _)
\* The loop over page.get_text("dict")["blocks"] (lines 186-312); i is
\* block_idx + 1.
LayoutLoop(page_num, page_height, raw, i, st) ==
    IF i > Len(raw) THEN st
    ELSE LET block == raw[i]
         IN  IF "lines" \notin DOMAIN block \/ block.type = 1
             THEN IF TooSmall(block.bbox) \/ RectKey(block.bbox) \in st.image_rects
                  THEN LayoutLoop(page_num, page_height, raw, i + 1, st)
                  ELSE LayoutLoop(page_num, page_height, raw, i + 1,
                         [blocks |-> Append(st.blocks,
                                       ImageBlock(page_num, block.bbox,
                                           ImageBlockId(page_num, i - 1, block.bbox))),
                          image_rects |-> st.image_rects \cup {RectKey(block.bbox)}])
             ELSE IF IsBlank(JoinWith(" ",
                        SpanLoop(AllSpans(block.lines), 1, EmptyAcc).all_text))
                  THEN LayoutLoop(page_num, page_height, raw, i + 1, st)
                  ELSE LayoutLoop(page_num, page_height, raw, i + 1,
                         [blocks |-> Append(st.blocks,
                                       TextBlockOf(page_num, i - 1, block, page_height)),
                          image_rects |-> st.image_rects])

\* The image part of _extract_page_blocks: the blocks appended before
\* page.get_text is called.  get_image_info raising is swallowed (line 179).
ImagePart(page_num, page) ==
    IF page.image_info_fails THEN [blocks |-> <<>>, image_rects |-> {}]
    ELSE ImageInfoLoop(page_num, page.image_info, 1, [blocks |-> <<>>, image_rects |-> {}])

\* _extract_page_blocks(page_num): the blocks it appends to self.blocks
extract_page_blocks(page_num, page) ==
    LayoutLoop(page_num, page.height, page.blocks, 1, ImagePart(page_num, page)).blocks

-----------------------------------------------------------------------------
(* Classification: PDFAnalyzer._classify_block *)

\* body_size = None
NoBodySize == 0 - 1

\* body_size * 1.4 as a float, body_size being the float nearest to b/10
\* with offset eb and 1.4 the float nearest to 14/10 with offset e14: the
\* exact product is 14b/100 with offset 14*eb + b*e14, in units of
\* 1/(100 * 2^60), and a further eb*e14/2^60, which is less than one unit
\* and matters by its sign only, when the rest lies midway between two
\* floats.  The offset of the float is given in half units.
Times14(b, eb, e14) ==
    NearestFloat(28 * b, 200,
                 2 * (14 * eb + b * e14)
                     + (IF eb = 0 \/ e14 = 0 THEN 0
                        ELSE IF (eb > 0) = (e14 > 0) THEN 1 ELSE 0 - 1))

\* font_size > body_size * 1.4: font_size is the float nearest to its
\* tenths.  Apart the two decimals compare as their floats do; equal, the
\* floats decide.  The products by 0.7, 0.95, 0.85 and 1.1 compare as the
\* exact ones do for every baseline below 819.2.
ExceedsTitleScale(font_size, body_size) ==
    \/ 10 * font_size > 14 * body_size
    \/ /\ 10 * font_size = 14 * body_size
       /\ 20 * NearestFloat(font_size, 10, 0)
              > Times14(body_size, NearestFloat(body_size, 10, 0), NearestFloat(14, 10, 0))

\* body_size or 10.0
BaselineOf(body_size) == IF body_size = NoBodySize \/ body_size = 0 THEN 100 ELSE body_size

\* A plausible slip: the bold rules tried before the superscript and the
\* tiny-mark rules
classify_block_BoldFirst(block, body_size_arg) ==
    LET body_size == BaselineOf(body_size_arg)
    IN  IF block.is_image THEN "image"
        ELSE IF block.is_bold /\ 10 * block.font_size > 11 * body_size THEN "heading"
        ELSE IF block.is_bold /\ block.line_count <= 2 /\ block.char_count < 200
             THEN "subheading"
        ELSE IF block.is_superscript THEN "footnote_ref"
        ELSE IF 10 * block.font_size < 7 * body_size /\ block.char_count < 5
             THEN "footnote_ref"
        ELSE IF block.region = "header" THEN "header"
        ELSE IF block.region = "footer" THEN "footer"
        ELSE IF block.region = "lower" /\ 100 * block.font_size < 95 * body_size
             THEN "footnote"
        ELSE IF 100 * block.font_size < 85 * body_size /\ block.region # "lower"
             THEN "caption"
        ELSE IF ExceedsTitleScale(block.font_size, body_size) THEN "title"
        ELSE IF block.is_italic /\ block.line_count > 2 THEN "quote"
        ELSE "body"

\* A plausible slip: a superscript block given a type of its own, which no
\* table knows
classify_block_Superscript(block, body_size_arg) ==
    LET body_size == BaselineOf(body_size_arg)
    IN  IF block.is_image THEN "image"
        ELSE IF block.is_superscript THEN "superscript"
        ELSE IF 10 * block.font_size < 7 * body_size /\ block.char_count < 5
             THEN "footnote_ref"
        ELSE IF block.region = "header" THEN "header"
        ELSE IF block.region = "footer" THEN "footer"
        ELSE IF block.region = "lower" /\ 100 * block.font_size < 95 * body_size
             THEN "footnote"
        ELSE IF 100 * block.font_size < 85 * body_size /\ block.region # "lower"
             THEN "caption"
        ELSE IF ExceedsTitleScale(block.font_size, body_size) THEN "title"
        ELSE IF block.is_bold /\ 10 * block.font_size > 11 * body_size THEN "heading"
        ELSE IF block.is_bold /\ block.line_count <= 2 /\ block.char_count < 200
             THEN "subheading"
        ELSE IF block.is_italic /\ block.line_count > 2 THEN "quote"
        ELSE "body"

\* _classify_block(block, body_size)
classify_block(block, body_size_arg) ==
    LET body_size == BaselineOf(body_size_arg)
    IN  IF block.is_image THEN "image"
        ELSE IF block.is_superscript THEN "footnote_ref"
        ELSE IF 10 * block.font_size < 7 * body_size /\ block.char_count < 5
             THEN "footnote_ref"
        ELSE IF block.region = "header" THEN "header"
        ELSE IF block.region = "footer" THEN "footer"
        ELSE IF block.region = "lower" /\ 100 * block.font_size < 95 * body_size
             THEN "footnote"
        ELSE IF 100 * block.font_size < 85 * body_size /\ block.region # "lower"
             THEN "caption"
        ELSE IF ExceedsTitleScale(block.font_size, body_size) THEN "title"
        ELSE IF block.is_bold /\ 10 * block.font_size > 11 * body_size THEN "heading"
        ELSE IF block.is_bold /\ block.line_count <= 2 /\ block.char_count < 200
             THEN "subheading"
        ELSE IF block.is_italic /\ block.line_count > 2 THEN "quote"
        ELSE "body"

-----------------------------------------------------------------------------
(* Category synthesis: PDFAnalyzer._generate_categories *)

CATEGORY_TYPE_COLORS ==
    [body |-> "#4CAF50", footnote |-> "#2196F3", footnote_ref |-> "#E91E63",
     heading |-> "#FF9800", subheading |-> "#9C27B0", title |-> "#F44336",
     caption |-> "#00BCD4", quote |-> "#FFEB3B", header |-> "#795548",
     footer |-> "#607D8B", image |-> "#9E9E9E"]

FALLBACK_COLORS ==
    <<"#E91E63", "#3F51B5", "#009688", "#8BC34A", "#FF5722", "#673AB7", "#00E676",
      "#FF4081", "#536DFE">>

RECURSIVE SizeChars_CountsBold(_, _, _)
\* A plausible slip: bold blocks counted too
SizeChars_CountsBold(blks, i, d) ==
    IF i > Len(blks) THEN d
    ELSE IF blks[i].region = "body"
         THEN SizeChars_CountsBold(blks, i + 1,
                                   DictAdd(d, blks[i].font_size, blks[i].char_count))
         ELSE SizeChars_CountsBold(blks, i + 1, d)

RECURSIVE SizeChars(_, _, _)
\* size_chars: font size -> characters, over the non-bold blocks of region body
SizeChars(blks, i, d) ==
    IF i > Len(blks) THEN d
    ELSE IF blks[i].region = "body" /\ ~blks[i].is_bold
         THEN SizeChars(blks, i + 1, DictAdd(d, blks[i].font_size, blks[i].char_count))
         ELSE SizeChars(blks, i + 1, d)

\* body_size as line 327 leaves it
BodySize(blks) ==
    LET size_chars == SizeChars(blks, 1, <<>>)
    IN  IF Len(size_chars) > 0 THEN MaxKey(size_chars) ELSE NoBodySize

\* groups[key].append(block), groups being a sequence of <<type, blocks>>
\* pairs in insertion order
GroupAppend(groups, key, block) ==
    IF \E i \in 1..Len(groups) : groups[i][1] = key
    THEN [i \in 1..Len(groups) |->
            IF groups[i][1] = key THEN <<key, Append(groups[i][2], block)>> ELSE groups[i]]
    ELSE Append(groups, <<key, <<block>> >>)

RECURSIVE GroupLoop(_, _, _, _)
\* The second pass (lines 330-336)
GroupLoop(blks, body_size, i, groups) ==
    IF i > Len(blks) THEN groups
    ELSE GroupLoop(blks, body_size, i + 1,
                   GroupAppend(groups, classify_block(blks[i], body_size), blks[i]))

RECURSIVE SumField(_, _)
SumChars(blks) == SumField([i \in 1..Len(blks) |-> blks[i].char_count], Len(blks))
SumField(xs, n) == IF n = 0 THEN 0 ELSE xs[n] + SumField(xs, n - 1)

RECURSIVE SumSizes(_, _, _, _)
\* sum(b.font_size for b in blocks) from block i on (line 344): the floats
\* are added one by one, each sum rounded to the nearest float.  The sum so
\* far, and the result, is total/10 + offset/(10 * 2^60), total the sum of
\* the tenths.
SumSizes(blks, i, total, offset) ==
    IF i > Len(blks) THEN [total |-> total, offset |-> offset]
    ELSE SumSizes(blks, i + 1, total + blks[i].font_size,
                  NearestFloat(total + blks[i].font_size, 10,
                               offset + NearestFloat(blks[i].font_size, 10, 0)))

RECURSIVE InsertSorted(_, _, _)
\* Stable insertion of item g behind every item whose key is not greater
InsertSorted(sorted, g, i) ==
    IF i > Len(sorted) THEN Append(sorted, g)
    ELSE IF 0 - SumChars(g[2]) < 0 - SumChars(sorted[i][2])
         THEN SubSeq(sorted, 1, i - 1) \o <<g>> \o SubSeq(sorted, i, Len(sorted))
         ELSE InsertSorted(sorted, g, i + 1)

RECURSIVE SortGroups(_, _, _)
\* sorted(groups.items(), key=lambda x: -sum(b.char_count for b in x[1])):
\* a stable sort, the greater total first
SortGroups(groups, i, sorted) ==
    IF i > Len(groups) THEN sorted
    ELSE SortGroups(groups, i + 1, InsertSorted(sorted, groups[i], 1))

CategoryName(cat_type) ==
    CASE cat_type = "body" -> "Body Text"
      [] cat_type = "footnote" -> "Footnotes"
      [] cat_type = "footnote_ref" -> "Footnote Numbers"
      [] cat_type = "heading" -> "Section Headings"
      [] cat_type = "subheading" -> "Subheadings"
      [] cat_type = "title" -> "Titles"
      [] cat_type = "header" -> "Page Headers"
      [] cat_type = "footer" -> "Page Footers"
      [] cat_type = "caption" -> "Captions"
      [] cat_type = "quote" -> "Block Quotes"
      [] cat_type = "image" -> "Images"
      [] OTHER -> "Other (" \o cat_type \o ")"

CategoryDescription(cat_type, n) ==
    CASE cat_type = "body" -> "Main content (" \o ToString(n) \o " blocks)"
      [] cat_type = "footnote" -> "Footnotes and references (" \o ToString(n) \o " blocks)"
      [] cat_type = "footnote_ref" ->
             "Superscript reference numbers (" \o ToString(n) \o " blocks)"
      [] cat_type = "heading" -> "Bold section titles"
      [] cat_type = "subheading" -> "Bold subsection titles"
      [] cat_type = "title" -> "Large titles or chapter headings"
      [] cat_type = "header" -> "Running header text"
      [] cat_type = "footer" -> "Page numbers or footer text"
      [] cat_type = "caption" -> "Figure or table captions"
      [] cat_type = "quote" -> "Indented quotations"
      [] cat_type = "image" -> "Figures and images (" \o ToString(n) \o " blocks)"
      [] OTHER -> "Other text style"

\* round(sum(font_size) / len(blocks), 1), in tenths (lines 344 and 401).
\* A mean off every decimal tie rounds to the nearest tenth, the error of the
\* float arithmetic being far smaller than its distance to a tie.  A mean on
\* a tie goes where the float of sum / len lies: above the tie up, below it
\* down, on it to the even tenth.
AvgSize(blks) ==
    LET n == Len(blks)
        s == SumSizes(blks, 1, 0, 0)
        f == NearestFloat(s.total, 10 * n, s.offset)
        low == (2 * s.total - n) \div (2 * n)
    IN  IF n = 0 THEN 100
        ELSE IF (2 * s.total) % (2 * n) # n THEN (2 * s.total + n) \div (2 * n)
        ELSE IF f > 0 \/ (f = 0 /\ low % 2 = 1) THEN low + 1
        ELSE low

\* cat_id = hashlib.md5(f"{cat_type}".encode()).hexdigest()[:8]
CatId(cat_type) == Md5Hex(cat_type, 8)

\* The Category built for one group (lines 343-405)
CategoryOf(cat_type, blks, fallback_idx) ==
    [id |-> CatId(cat_type),
     name |-> CategoryName(cat_type),
     description |-> CategoryDescription(cat_type, Len(blks)),
     color |-> IF cat_type \in DOMAIN CATEGORY_TYPE_COLORS
               THEN CATEGORY_TYPE_COLORS[cat_type]
               ELSE FALLBACK_COLORS[(fallback_idx % Len(FALLBACK_COLORS)) + 1],
     block_count |-> Len(blks),
     char_count |-> SumChars(blks),
     font_size |-> AvgSize(blks),
     region |-> blks[1].region,
     sample_text |-> Prefix(blks[1].text, 100),
     enabled |-> TRUE]

\* self.categories[cat_id] = category: a dict keeps a key's first position
DictSet(cats, c) ==
    IF \E i \in 1..Len(cats) : cats[i].id = c.id
    THEN [i \in 1..Len(cats) |-> IF cats[i].id = c.id THEN c ELSE cats[i]]
    ELSE Append(cats, c)

RECURSIVE CategoryLoop(_, _, _)
\* The loop over sorted_groups (lines 342-408): st holds the category dict
\* and fallback_idx
CategoryLoop(sorted_groups, i, st) ==
    IF i > Len(sorted_groups) THEN st
    ELSE LET cat_type == sorted_groups[i][1]
             known == cat_type \in DOMAIN CATEGORY_TYPE_COLORS
         IN  CategoryLoop(sorted_groups, i + 1,
                 [categories |-> DictSet(st.categories,
                                   CategoryOf(cat_type, sorted_groups[i][2], st.fallback_idx)),
                  fallback_idx |-> IF known THEN st.fallback_idx ELSE st.fallback_idx + 1])

\* A plausible slip: the back-fill of block.category_id left out
AssignCategoryIds_Skipped(blks, body_size) == blks

\* for block in blocks: block.category_id = cat_id (lines 407-408), each
\* block being in the group of its type
AssignCategoryIds(blks, body_size) ==
    [i \in 1..Len(blks) |->
        [blks[i] EXCEPT !.category_id = CatId(classify_block(blks[i], body_size))]]

\* _generate_categories(): self.blocks and self.categories as it leaves them
generate_categories(blks, cats) ==
    LET body_size == BodySize(blks)
        groups == GroupLoop(blks, body_size, 1, <<>>)
        sorted_groups == SortGroups(groups, 1, <<>>)
        st == CategoryLoop(sorted_groups, 1,
                           [categories |-> cats, fallback_idx |-> 0])
    IN  [blocks |-> AssignCategoryIds(blks, body_size),
         categories |-> st.categories,
         fallback_idx |-> st.fallback_idx]

-----------------------------------------------------------------------------
(* Export and query: PDFAnalyzer.export_text, PDFAnalyzer.find_similar *)

\* (a.page, a.y, a.x) < (b.page, b.y, b.x)
\* A plausible slip: the key taken as (page, x, y)
KeyLess_XBeforeY(a, b) ==
    \/ a.page < b.page
    \/ a.page = b.page /\ a.x < b.x
    \/ a.page = b.page /\ a.x = b.x /\ a.y < b.y

\* The order of the sort key (b.page, b.y, b.x) (line 484)
KeyLess(a, b) ==
    \/ a.page < b.page
    \/ a.page = b.page /\ a.y < b.y
    \/ a.page = b.page /\ a.y = b.y /\ a.x < b.x

RECURSIVE InsertBlock(_, _, _)
InsertBlock(sorted, b, i) ==
    IF i > Len(sorted) THEN Append(sorted, b)
    ELSE IF KeyLess(b, sorted[i])
         THEN SubSeq(sorted, 1, i - 1) \o <<b>> \o SubSeq(sorted, i, Len(sorted))
         ELSE InsertBlock(sorted, b, i + 1)

RECURSIVE SortBlocksFrom(_, _, _)
SortBlocksFrom(blks, i, sorted) ==
    IF i > Len(blks) THEN sorted
    ELSE SortBlocksFrom(blks, i + 1, InsertBlock(sorted, blks[i], 1))

\* sorted(self.blocks, key=lambda b: (b.page, b.y, b.x)): a stable sort
SortBlocks(blks) == SortBlocksFrom(blks, 1, <<>>)

RECURSIVE ExportLoop(_, _, _, _, _)
\* The loop of export_text (lines 486-498): the lines list it builds
ExportLoop(sorted_blocks, enabled_set, i, current_page, lines) ==
    IF i > Len(sorted_blocks) THEN lines
    ELSE LET block == sorted_blocks[i]
         IN  IF block.category_id \notin enabled_set
             THEN ExportLoop(sorted_blocks, enabled_set, i + 1, current_page, lines)
             ELSE IF block.page # current_page
                  THEN ExportLoop(sorted_blocks, enabled_set, i + 1, block.page,
                           (IF current_page >= 0 THEN Append(lines, "") ELSE lines)
                               \o <<block.text>>)
                  ELSE ExportLoop(sorted_blocks, enabled_set, i + 1, current_page,
                           Append(lines, block.text))

\* The lines list of export_text
ExportLines(blks, enabled_set) == ExportLoop(SortBlocks(blks), enabled_set, 1, 0 - 1, <<>>)

\* export_text(enabled_categories): its return value
export_text(blks, enabled_set) ==
    LET text == JoinWith("\n", ExportLines(blks, enabled_set))
    IN  [text |-> text, char_count |-> Len(text)]

\* A plausible slip: self.blocks.sort(...) in place of sorted(self.blocks, ...)
BlocksAfterExport_SortedInPlace(blks) == SortBlocks(blks)

\* self.blocks after export_text: sorted() builds a new list (line 484)
BlocksAfterExport(blks) == blks

\* The index of the first block whose id is block_id, 0 when there is none
\* (lines 508-512)
FindTarget(blks, block_id) ==
    IF \E i \in 1..Len(blks) : blks[i].id = block_id
    THEN CHOOSE i \in 1..Len(blks) :
             blks[i].id = block_id /\ \A j \in 1..(i - 1) : blks[j].id # block_id
    ELSE 0

RECURSIVE SimilarIds(_, _, _)
\* [b.id for b in self.blocks if b.category_id == target.category_id]
SimilarIds(blks, category_id, i) ==
    IF i > Len(blks) THEN <<>>
    ELSE (IF blks[i].category_id = category_id THEN <<blks[i].id>> ELSE <<>>)
             \o SimilarIds(blks, category_id, i + 1)

\* A plausible slip: the target left out of its own result
find_similar_TargetExcluded(blks, block_id) ==
    LET target == FindTarget(blks, block_id)
    IN  IF target = 0 THEN [similar_ids |-> <<>>, count |-> 0]
        ELSE LET similar == SelectSeq(SimilarIds(blks, blks[target].category_id, 1),
                                      LAMBDA id : id # block_id)
             IN  [similar_ids |-> similar, count |-> Len(similar)]

\* find_similar(block_id): its return value
find_similar(blks, block_id) ==
    LET target == FindTarget(blks, block_id)
    IN  IF target = 0 THEN [similar_ids |-> <<>>, count |-> 0]
        ELSE LET similar == SimilarIds(blks, blks[target].category_id, 1)
             IN  [similar_ids |-> similar, count |-> Len(similar)]

-----------------------------------------------------------------------------
(* The documents on disk, as the document engine (PyMuPDF) presents them *)

Span(text, size, font, flags) == [text |-> text, size |-> size, font |-> font, flags |-> flags]

\* a layout block of get_text("dict") with lines
TextRaw(bbox, lines) == [type |-> 0, bbox |-> bbox, lines |-> lines]

\* a layout block of get_text("dict") of type 1, without lines
ImageRaw(bbox) == [type |-> 1, bbox |-> bbox]

Roman == "Times-Roman"

\* The pages of the documents
Pages ==
    <<
     \* Header, bold heading, two-line body text with a superscript mark, an image
     \* seen by both image sources, a footnote and a page number.
     [width |-> 1200, height |-> 1600, image_info_fails |-> FALSE, text_fails |-> FALSE,
      image_info |-> << <<200, 500, 600, 900>> >>,
      blocks |-> <<
         TextRaw(<<100, 40, 1100, 70>>, << <<Span("Chapter One", 900, Roman, 0)>> >>),
         TextRaw(<<100, 300, 1100, 340>>, << <<Span("Introduction", 1200, "Times-Bold", 16)>> >>),
         TextRaw(<<100, 400, 1100, 480>>,
                 << <<Span("The quick brown fox", 1000, Roman, 0), Span("1", 600, Roman, 1)>>,
                    <<Span("jumps over the dog.", 1004, Roman, 0)>> >>),
         ImageRaw(<<200, 500, 600, 900>>),
         TextRaw(<<100, 1300, 1100, 1340>>, << <<Span("1 See the appendix.", 800, Roman, 0)>> >>),
         TextRaw(<<580, 1500, 620, 1530>>, << <<Span("12", 900, Roman, 0)>> >>) >>],
     \* Blocks stored out of reading order, a three-line italic quote, a bold
     \* superscript mark, a whitespace-only block, images whose boxes round to
     \* the same key, a decorative image, an entry without bbox, a caption.
     [width |-> 1200, height |-> 1600, image_info_fails |-> FALSE, text_fails |-> FALSE,
      image_info |-> << <<200, 200, 400, 400>>, <<201, 200, 401, 400>>, <<0, 0, 30, 30>>, <<>> >>,
      blocks |-> <<
         TextRaw(<<100, 900, 1100, 1000>>,
                 << <<Span("It was the best", 1000, "Times-Italic", 0)>>,
                    <<Span("of times, it was", 1000, Roman, 2)>>,
                    <<Span("the worst.", 1000, "Times-Oblique", 0)>> >>),
         TextRaw(<<100, 600, 1100, 700>>, << <<Span("Second page text.", 1000, Roman, 0)>> >>),
         TextRaw(<<700, 600, 720, 620>>, << <<Span("2", 600, "Times-Bold", 17)>> >>),
         TextRaw(<<100, 800, 200, 820>>, << <<Span("   ", 1000, Roman, 0)>> >>),
         ImageRaw(<<600, 1000, 900, 1300>>),
         TextRaw(<<100, 1050, 500, 1090>>, << <<Span("Figure 1: a fox", 800, Roman, 0)>> >>) >>],
     \* A scanned title page: a full-page image and bold text only.
     [width |-> 1200, height |-> 1600, image_info_fails |-> FALSE, text_fails |-> FALSE,
      image_info |-> << <<0, 0, 1200, 1600>> >>,
      blocks |-> <<
         TextRaw(<<200, 640, 1000, 700>>, << <<Span("BOOK TITLE", 1200, "Helvetica-Bold", 0)>> >>),
         TextRaw(<<200, 800, 1000, 840>>, << <<Span("An Author", 1000, "Helvetica", 16)>> >>) >>],
     \* A page whose text extraction raises in the engine.
     [width |-> 1200, height |-> 1600, image_info_fails |-> FALSE, text_fails |-> TRUE,
      image_info |-> << <<100, 100, 300, 300>> >>,
      blocks |-> <<>>],
     \* A 12 pt document: two body sizes that tie on characters, a large title, a
     \* page whose image list cannot be read, a bold subheading.
     [width |-> 1000, height |-> 1400, image_info_fails |-> TRUE, text_fails |-> FALSE,
      image_info |-> << <<100, 100, 300, 300>> >>,
      blocks |-> <<
         TextRaw(<<100, 200, 900, 260>>, << <<Span("Part Two", 2000, Roman, 0)>> >>),
         TextRaw(<<100, 300, 900, 340>>, << <<Span("abcd efgh", 1200, Roman, 0)>> >>),
         TextRaw(<<100, 400, 900, 440>>, << <<Span("ijkl mnop", 1100, Roman, 0)>> >>),
         TextRaw(<<100, 500, 900, 540>>, << <<Span("Summary", 1200, "Arial-BoldMT", 0)>> >>),
         ImageRaw(<<100, 100, 300, 300>>) >>]
    >>

Files ==
    { [path |-> "a.pdf", openable |-> TRUE, pages |-> <<Pages[2], Pages[1]>>],
      [path |-> "b.pdf", openable |-> TRUE, pages |-> <<Pages[3], Pages[5]>>],
      [path |-> "books/c.pdf", openable |-> TRUE, pages |-> <<Pages[5], Pages[4]>>],
      [path |-> "missing.pdf", openable |-> FALSE, pages |-> <<>>] }

\* Path(pdf_path).name: the last component of the path, the empty ones (a
\* doubled or trailing "/") and the "." ones left out; "" when none is left.
PdfName(pdf) ==
    LET p == pdf.path
        IsSep(i) == i < 1 \/ i > Len(p) \/ CharAt(p, i) = "/"
        starts == {a \in 1..Len(p) :
                      /\ IsSep(a - 1) /\ ~IsSep(a)
                      /\ ~(CharAt(p, a) = "." /\ IsSep(a + 1))}
        a == CHOOSE a \in starts : \A b \in starts : b <= a
        z == CHOOSE z \in a..Len(p) : IsSep(z + 1) /\ \A i \in a..z : ~IsSep(i)
    IN  IF starts = {} THEN "" ELSE SubSeq(p, a, z)

-----------------------------------------------------------------------------
(* PDFAnalyzer.analyze *)

\* page_count (lines 108-110); max_pages 0 stands for None
PageCount(pdf, max_pages) ==
    IF max_pages # 0 THEN Min(Len(pdf.pages), max_pages) ELSE Len(pdf.pages)

\* The first page (1-based) among the first n whose extraction raises, or 0
FirstFailing(pdf, n) ==
    IF \E i \in 1..n : pdf.pages[i].text_fails
    THEN CHOOSE i \in 1..n :
             pdf.pages[i].text_fails /\ \A j \in 1..(i - 1) : ~pdf.pages[j].text_fails
    ELSE 0

\* What _extract_page_blocks appends for each page of each file (all), and
\* what it has appended when get_text is reached (img); tabulated once
PageBlocksTable ==
    [pdf \in Files |-> [i \in 1..Len(pdf.pages) |->
        [all |-> extract_page_blocks(i - 1, pdf.pages[i]),
         img |-> ImagePart(i - 1, pdf.pages[i]).blocks]]]

RECURSIVE ExtractPages(_, _, _)
\* for page_num in range(page_count): self._extract_page_blocks(page_num),
\* for the pages i..n (1-based)
ExtractPages(pdf, i, n) ==
    IF i > n THEN <<>>
    ELSE PageBlocksTable[pdf][i].all \o ExtractPages(pdf, i + 1, n)

\* self.page_dimensions after the first loop (lines 113-118)
PageDimensions(pdf, n) ==
    [i \in 1..n |-> [width |-> pdf.pages[i].width, height |-> pdf.pages[i].height]]

\* self.blocks = [] (line 105)
ResetBlocks(old_blocks) == <<>>

\* The state analyze leaves and what it returns or raises, from the
\* analyzer's blocks, categories and doc before the call
analyze(pdf, max_pages, old) ==
    IF ~pdf.openable
    THEN \* fitz.open raises (line 104)
         [old EXCEPT !.pdf_path = pdf.path, !.ok = FALSE,
                     !.value = [error |-> "cannot open " \o pdf.path]]
    ELSE LET page_count == PageCount(pdf, max_pages)
             failing == FirstFailing(pdf, page_count)
         IN  IF failing # 0
             THEN \* get_text raises in _extract_page_blocks (line 184)
                  [old EXCEPT !.pdf_path = pdf.path, !.doc = pdf.path, !.ok = FALSE,
                     !.page_dimensions = PageDimensions(pdf, page_count),
                     !.blocks = ResetBlocks(old.blocks) \o ExtractPages(pdf, 1, failing - 1)
                                  \o PageBlocksTable[pdf][failing].img,
                     !.value = [error |-> "extraction failed"]]
             ELSE LET gen == generate_categories(
                                 ResetBlocks(old.blocks) \o ExtractPages(pdf, 1, page_count),
                                 old.categories)
                  IN  [pdf_path |-> pdf.path, doc |-> pdf.path, ok |-> TRUE,
                       page_dimensions |-> PageDimensions(pdf, page_count),
                       blocks |-> gen.blocks,
                       categories |-> gen.categories,
                       fallback_idx |-> gen.fallback_idx,
                       value |-> [blocks |-> gen.blocks,
                                  categories |-> gen.categories,
                                  page_count |-> page_count,
                                  page_dimensions |-> PageDimensions(pdf, page_count),
                                  pdf_name |-> PdfName(pdf)]]

-----------------------------------------------------------------------------
(* The analyzer as a state machine: one action per public method *)

NoResult == [method |-> "none", args |-> <<>>, ok |-> TRUE, value |-> [none |-> TRUE]]

NoExport == [valid |-> FALSE, enabled |-> {}, text |-> "", between |-> FALSE, again |-> FALSE]

\* PDFAnalyzer.__init__ (lines 94-99)
Init ==
    /\ blocks = <<>>
    /\ categories = <<>>
    /\ doc = None
    /\ pdf_path = None
    /\ page_dimensions = <<>>
    /\ result = NoResult
    /\ analyzed = {}
    /\ exported = NoExport
    /\ nAnalyze = 0
    /\ cIn = <<>>
    /\ cOut = <<>>

\* The ids of the category dict
CatIds(cats) == {cats[i].id : i \in 1..Len(cats)}

\* analyze(pdf_path, max_pages)
Analyze(pdf, max_pages) ==
    /\ nAnalyze < MaxAnalyze
    /\ \E new \in {analyze(pdf, max_pages,
                          [pdf_path |-> pdf_path, doc |-> doc, ok |-> TRUE,
                           page_dimensions |-> page_dimensions, blocks |-> blocks,
                           categories |-> categories, fallback_idx |-> 0,
                           value |-> [none |-> TRUE]])} :
           /\ blocks' = new.blocks
           /\ categories' = new.categories
           /\ doc' = new.doc
           /\ pdf_path' = new.pdf_path
           /\ page_dimensions' = new.page_dimensions
           /\ result' = [method |-> "analyze", args |-> <<pdf.path, max_pages>>,
                         ok |-> new.ok, value |-> new.value]
           /\ analyzed' = IF new.ok /\ \A a \in analyzed : a.args # <<pdf.path, max_pages>>
                          THEN analyzed \cup {[args |-> <<pdf.path, max_pages>>,
                                                blocks |-> new.value.blocks,
                                                category_ids |-> CatIds(new.value.categories)]}
                          ELSE analyzed
           /\ exported' = IF new.blocks = blocks THEN exported ELSE NoExport
    /\ nAnalyze' = nAnalyze + 1
    /\ UNCHANGED <<cIn, cOut>>

\* export_text(enabled_categories), but for the bookkeeping of exported
ExportCall(enabled_set) ==
    /\ result' = [method |-> "export", args |-> enabled_set, ok |-> TRUE,
                  value |-> export_text(blocks, enabled_set)]
    /\ blocks' = BlocksAfterExport(blocks)
    /\ UNCHANGED <<categories, doc, pdf_path, page_dimensions, analyzed, nAnalyze, cIn, cOut>>

\* export_text(enabled_categories)
Export(enabled_set) == ExportCall(enabled_set) /\ UNCHANGED exported

\* export_text(enabled_categories), the first call since the analysis being
\* remembered, and whether another enabled list was exported since, and
\* whether the remembered one was exported again after that
ExportRemembered(enabled_set) ==
    /\ ExportCall(enabled_set)
    /\ exported' = IF ~exported.valid
                   THEN [valid |-> TRUE, enabled |-> enabled_set,
                         text |-> result'.value.text, between |-> FALSE,
                         again |-> FALSE]
                   ELSE IF exported.enabled = enabled_set
                        THEN [exported EXCEPT !.again = exported.between]
                        ELSE [exported EXCEPT !.between = TRUE]

\* find_similar(block_id)
FindSimilar(block_id) ==
    /\ result' = [method |-> "find_similar", args |-> block_id, ok |-> TRUE,
                  value |-> find_similar(blocks, block_id)]
    /\ UNCHANGED <<blocks, categories, doc, pdf_path, page_dimensions, analyzed, exported,
                   nAnalyze, cIn, cOut>>

\* close() (lines 567-571): the document held, if any, is closed and let go
CloseDocument ==
    /\ doc' = None
    /\ result' = [method |-> "close", args |-> <<>>, ok |-> TRUE, value |-> [none |-> TRUE]]
    /\ UNCHANGED <<blocks, categories, pdf_path, page_dimensions, analyzed, exported,
                   nAnalyze, cIn, cOut>>

\* The file at a path
FileOf(path) == CHOOSE pdf \in Files : pdf.path = path

\* render_page(page_num, scale, pdf_path) with the analyzer holding the
\* document held: what it returns or raises.  The picture is stood for by
\* the document and the page it is made of; the scale is left out.
render_page(held, page_num, path) ==
    IF path \notin {None, ""} /\ ~FileOf(path).openable
    THEN [ok |-> FALSE, value |-> [error |-> "cannot open " \o path]]
    ELSE IF path \in {None, ""} /\ held = None
    THEN [ok |-> FALSE, value |-> [error |-> "No PDF loaded"]]
    ELSE LET source == IF path \notin {None, ""} THEN path ELSE held
         IN  IF page_num >= Len(FileOf(source).pages)
             THEN [ok |-> FALSE, value |-> [error |-> "page not in document"]]
             ELSE [ok |-> TRUE, value |-> [image |-> <<source, page_num>>]]

\* handle_request({'method': 'render_page', 'args': [page_num, scale, pdf_path]})
RenderPage(page_num, path) ==
    /\ result' = [method |-> "render_page", args |-> <<page_num, path>>,
                  ok |-> render_page(doc, page_num, path).ok,
                  value |-> render_page(doc, page_num, path).value]
    /\ UNCHANGED <<blocks, categories, doc, pdf_path, page_dimensions, analyzed, exported,
                   nAnalyze, cIn, cOut>>

\* The method names handle_request knows (lines 583-602)
KnownMethods == {"analyze", "export", "find_similar", "render_page", "export_pdf"}

\* The else branch as it would be if it raised
unknown_method_Raised(method) ==
    [ok |-> FALSE, value |-> [error |-> "Unknown method: " \o method]]

\* The else branch of handle_request (lines 608-609): a dict is returned
unknown_method(method) ==
    [ok |-> TRUE, value |-> [error |-> "Unknown method: " \o method]]

\* handle_request({'method': method}), method not one of KnownMethods
UnknownMethod(method) ==
    /\ method \notin KnownMethods
    /\ result' = [method |-> method, args |-> <<>>,
                  ok |-> unknown_method(method).ok,
                  value |-> unknown_method(method).value]
    /\ UNCHANGED <<blocks, categories, doc, pdf_path, page_dimensions, analyzed, exported,
                   nAnalyze, cIn, cOut>>

\* The max_pages arguments tried; 0 stands for None
MaxPagesChoices == {0, 1}

UnknownCategoryId == "00000000"
UnknownBlockId == "000000000000"

\* The enabled lists tried: nothing, one id (of the map, or one it lacks),
\* every id of the map
EnabledChoices ==
    {{}} \cup {{id} : id \in CatIds(categories) \cup {UnknownCategoryId}}
         \cup {CatIds(categories)}

\* and, after a single analysis, every id of the map but one
EnabledChoicesWide ==
    EnabledChoices \cup {CatIds(categories) \ {id} : id \in CatIds(categories)}

\* The block ids tried: each block's, and one no block has
BlockIdChoices == {blocks[i].id : i \in 1..Len(blocks)} \cup {UnknownBlockId}

Next ==
    \/ \E pdf \in Files, max_pages \in MaxPagesChoices : Analyze(pdf, max_pages)
    \/ \E enabled_set \in EnabledChoices : Export(enabled_set)
    \/ \E block_id \in BlockIdChoices : FindSimilar(block_id)
    \/ CloseDocument

Spec == Init /\ [][Next]_vars

\* handle_request on the global analyzer: every method but export_pdf,
\* which reads and writes nothing of the analyzer.  No request reaches
\* close(), and main never calls it.  render_page is asked for
\* a page every document has and for one that some lack, of the document
\* held or of the one at a path; the methods tried that handle_request does
\* not know include None, the method of a request that names none.
NextRequests ==
    \/ \E pdf \in Files, max_pages \in MaxPagesChoices : Analyze(pdf, max_pages)
    \/ \E enabled_set \in EnabledChoices : Export(enabled_set)
    \/ \E block_id \in BlockIdChoices : FindSimilar(block_id)
    \/ \E page_num \in {0, 2}, path \in {None, "b.pdf", "missing.pdf"} :
           RenderPage(page_num, path)
    \/ \E method \in {"frobnicate", "Analyze", None} : UnknownMethod(method)

SpecRequests == Init /\ [][NextRequests]_vars

\* One analysis followed by any number of queries and closes, the first
\* export remembered
NextQuery ==
    \/ \E pdf \in Files, max_pages \in MaxPagesChoices :
           nAnalyze = 0 /\ Analyze(pdf, max_pages)
    \/ \E enabled_set \in EnabledChoicesWide : ExportRemembered(enabled_set)
    \/ \E block_id \in BlockIdChoices : FindSimilar(block_id)
    \/ CloseDocument

SpecQuery == Init /\ [][NextQuery]_vars

-----------------------------------------------------------------------------
(* The pure functions on their own: an input is drawn, the function applied *)

\* A freshly constructed analyzer that is never called
Untouched ==
    /\ blocks = <<>>
    /\ categories = <<>>
    /\ doc = None
    /\ pdf_path = None
    /\ page_dimensions = <<>>
    /\ result = NoResult
    /\ analyzed = {}
    /\ exported = NoExport
    /\ nAnalyze = 0

AnalyzerVars ==
    <<blocks, categories, doc, pdf_path, page_dimensions, result, analyzed, exported,
      nAnalyze>>

Regions == {"header", "footer", "lower", "body"}

\* The blocks and baselines classified: font sizes (tenths) on both sides of
\* every threshold of a 10.0 baseline, and 15.4, which an 11.0 baseline makes
\* a title by float rounding alone
ClassifyInputs ==
    [block : [is_image : BOOLEAN, is_superscript : BOOLEAN, is_bold : BOOLEAN,
              is_italic : BOOLEAN, region : Regions,
              font_size : {0, 69, 70, 84, 85, 94, 95, 100, 110, 111, 140, 141, 154},
              char_count : {4, 5, 199, 200}, line_count : {2, 3}],
     body_size : {NoBodySize, 0, 100, 110}]

InitClassify == Untouched /\ cIn \in ClassifyInputs /\ cOut = <<>>

\* self._classify_block(block, body_size)
Classify ==
    /\ cOut = <<>>
    /\ cOut' = <<classify_block(cIn.block, cIn.body_size)>>
    /\ UNCHANGED <<AnalyzerVars, cIn>>

SpecClassify == InitClassify /\ [][Classify]_vars

\* Positions (half units) on both sides of the 5, 8, 70, 88 and 92 per cent
\* lines of a page 1600 high, text lengths and line counts around the gates
RegionInputs ==
    [y : {0, 56, 64, 79, 80, 96, 127, 128, 800, 1120, 1121, 1408, 1409, 1472, 1473},
     page_height : {1600, 1400},
     text_len : {1, 49, 50, 79, 80, 100, 149, 150, 200},
     line_count : {1, 2, 3, 4}]

InitRegion == Untouched /\ cIn \in RegionInputs /\ cOut = <<>>

\* The region detection of _extract_page_blocks
Region ==
    /\ cOut = <<>>
    /\ cOut' = <<DetectRegion(cIn.y, cIn.page_height, cIn.text_len, cIn.line_count)>>
    /\ UNCHANGED <<AnalyzerVars, cIn>>

SpecRegion == InitRegion /\ [][Region]_vars

\* One block as the first pass of _generate_categories reads it
BBlock(region, is_bold, font_size, char_count) ==
    [region |-> region, is_bold |-> is_bold, font_size |-> font_size,
     char_count |-> char_count]

\* An image block, body text of two sizes and weights, text of font size
\* 0.0, a bold block, a footer, a footnote and a header
BaselineBlocks ==
    { BBlock("body", FALSE, 0, 0), BBlock("body", FALSE, 100, 10),
      BBlock("body", FALSE, 100, 5), BBlock("body", FALSE, 120, 10),
      BBlock("body", FALSE, 120, 5), BBlock("body", FALSE, 0, 12),
      BBlock("body", TRUE, 140, 30), BBlock("footer", FALSE, 90, 30),
      BBlock("lower", FALSE, 80, 40), BBlock("header", FALSE, 110, 20) }

MaxBaselineBlocks == 3

RECURSIVE SeqsUpTo(_, _)
\* The sequences over S of length at most n
SeqsUpTo(S, n) ==
    IF n = 0 THEN {<<>>}
    ELSE LET shorter == SeqsUpTo(S, n - 1)
         IN  shorter \cup {Append(q, x) : q \in shorter, x \in S}

InitBaseline == Untouched /\ cIn \in SeqsUpTo(BaselineBlocks, MaxBaselineBlocks) /\ cOut = <<>>

\* The first pass of _generate_categories and the default _classify_block
\* applies to its result
Baseline ==
    /\ cOut = <<>>
    /\ cOut' = <<BaselineOf(BodySize(cIn))>>
    /\ UNCHANGED <<AnalyzerVars, cIn>>

SpecBaseline == InitBaseline /\ [][Baseline]_vars

\* The images of a page, from either source
MaxImages == 2

\* A document of two pages, 500 by 700.  The first has any images: in
\* half units, a box of 200 by 200, the same box moved by less than a half,
\* a larger box with the same corner, a box of 19 by 45, a box of 20 by 20,
\* and, in the image list, an entry without a box; a line of text may lie
\* among the layout fragments.  The second page has the first box, from
\* one source or the other.
InitImages ==
    /\ Untouched
    /\ cOut = <<>>
    /\ \E infos \in SeqsUpTo({<<200, 200, 600, 600>>, <<201, 199, 600, 601>>,
                               <<200, 200, 800, 800>>, <<10, 10, 48, 100>>,
                               <<10, 10, 50, 50>>, <<>>}, MaxImages),
          raw \in SeqsUpTo({ImageRaw(<<200, 200, 600, 600>>),
                             ImageRaw(<<201, 199, 600, 601>>),
                             ImageRaw(<<200, 200, 800, 800>>),
                             ImageRaw(<<10, 10, 48, 100>>),
                             ImageRaw(<<10, 10, 50, 50>>),
                             TextRaw(<<100, 900, 900, 940>>,
                                     << <<Span("Figure 1", 1000, Roman, 0)>> >>)},
                            MaxImages),
          from_list \in BOOLEAN :
              cIn = <<[width |-> 1000, height |-> 1400, image_info_fails |-> FALSE,
                       text_fails |-> FALSE, image_info |-> infos, blocks |-> raw],
                      [width |-> 1000, height |-> 1400, image_info_fails |-> FALSE,
                       text_fails |-> FALSE,
                       image_info |-> IF from_list THEN << <<200, 200, 600, 600>> >>
                                      ELSE <<>>,
                       blocks |-> IF from_list THEN <<>>
                                  ELSE <<ImageRaw(<<200, 200, 600, 600>>)>>]>>

\* for page_num in range(page_count): self._extract_page_blocks(page_num)
\* (lines 121-122), on the two pages
ExtractImages ==
    /\ cOut = <<>>
    /\ cOut' = <<extract_page_blocks(0, cIn[1]) \o extract_page_blocks(1, cIn[2])>>
    /\ UNCHANGED <<AnalyzerVars, cIn>>

SpecImages == InitImages /\ [][ExtractImages]_vars

-----------------------------------------------------------------------------
(* pdf-redact.py and PDFAnalyzer.export_pdf.  The document engine is seen     *)
(* through the calls made to it: each call that returns is appended to a log, *)
(* and any one call may raise.                                                *)

\* pymupdf.Rect(x0, y0, x1, y1)
Rect(x0, y0, x1, y1) == [x0 |-> x0, y0 |-> y0, x1 |-> x1, y1 |-> y1]

NoRect == Rect(0, 0, 0, 0)

\* region_rect (lines 71-78 of pdf-redact.py)
RegionRect(region) ==
    Rect(region.x, region.y, region.x + region.width, region.y + region.height)

\* found_rect.intersects(region_rect): the two rectangles have an area in
\* common; an empty rectangle intersects nothing
Intersects(a, b) ==
    /\ a.x0 < a.x1 /\ a.y0 < a.y1
    /\ b.x0 < b.x1 /\ b.y0 < b.y1
    /\ a.x0 < b.x1 /\ b.x0 < a.x1
    /\ a.y0 < b.y1 /\ b.y0 < a.y1

\* page.search_for(text, quads=False): the boxes of the occurrences of text
\* on the page, in the engine's order
search_for(page, text) == IF text \in DOMAIN page.found THEN page.found[text] ELSE <<>>

\* page.add_redact_annot(rect) on page page_num of the open document d
AddRedactAnnot(d, page_num, rect) ==
    LET p == d.pages[page_num + 1]
    IN  [d EXCEPT !.pages[page_num + 1] = [p EXCEPT !.marks = Append(p.marks, rect)]]

\* page.apply_redactions(...): what the marks of the page cover is removed
ApplyRedactions(d, page_num) ==
    LET p == d.pages[page_num + 1]
    IN  [d EXCEPT !.pages[page_num + 1] =
                      [p EXCEPT !.redacted = p.redacted \o p.marks, !.marks = <<>>]]

\* doc.delete_page(page_num)
DeletePage(d, page_num) ==
    [d EXCEPT !.pages = SubSeq(d.pages, 1, page_num)
                            \o SubSeq(d.pages, page_num + 2, Len(d.pages))]

\* set_toc as it would be if it added the entries to the table kept
SetToc_Merged(d, toc) == [d EXCEPT !.toc = d.toc \o toc]

\* doc.set_toc(toc)
SetToc(d, toc) == [d EXCEPT !.toc = toc]

\* One call of the engine as the log keeps it
Op(op, page, rect, text) == [op |-> op, page |-> page, rect |-> rect, text |-> text]

\* The k-th call of a run raises when k = fails_at; otherwise the call
\* returns, is logged, and leaves the document as doc_after.  Nothing runs
\* after an exception: neither script catches any.
Call(st, fails_at, entry, doc_after) ==
    IF st.raised THEN st
    ELSE IF Len(st.log) + 1 = fails_at THEN [st EXCEPT !.raised = TRUE]
    ELSE [st EXCEPT !.log = Append(st.log, entry), !.doc = doc_after]

\* pymupdf.open(input_path) (line 50), fitz.open(pdf_path) (line 531 of
\* pdf_analyzer.py): the start of a run
OpenDocument(pdf, fails_at) ==
    LET st0 == [doc |-> [pages |-> <<>>, toc |-> <<>>], log |-> <<>>, raised |-> FALSE,
                open |-> FALSE, saved |-> <<>>, stdout |-> <<>>]
    IN  IF ~pdf.openable \/ fails_at = 1 THEN [st0 EXCEPT !.raised = TRUE]
        ELSE [st0 EXCEPT !.doc = [pages |-> pdf.pages, toc |-> pdf.toc],
                         !.log = <<Op("open", 0 - 1, NoRect, pdf.path)>>,
                         !.open = TRUE]

RECURSIVE RegionsByPage(_, _, _)
\* regions_by_page (lines 54-59): a dict keeps the pages in the order in
\* which they first appear, and each page's regions in the order given
RegionsByPage(regions, i, groups) ==
    IF i > Len(regions) THEN groups
    ELSE RegionsByPage(regions, i + 1, GroupAppend(groups, regions[i].page, regions[i]))

\* The search as it would be if the first match were taken wherever it is
FirstIntersecting_FirstMatch(text_instances, region_rect) ==
    IF Len(text_instances) > 0 THEN 1 ELSE 0

\* The index of the first box of text_instances that intersects
\* region_rect, 0 when none does (lines 87-93)
FirstIntersecting(text_instances, region_rect) ==
    IF \E i \in 1..Len(text_instances) : Intersects(text_instances[i], region_rect)
    THEN CHOOSE i \in 1..Len(text_instances) :
             /\ Intersects(text_instances[i], region_rect)
             /\ \A j \in 1..(i - 1) : ~Intersects(text_instances[j], region_rect)
    ELSE 0

\* The body of the loop over page_regions (lines 70-100)
RedactRegion(st, fails_at, page_num, region) ==
    LET region_rect == RegionRect(region)
    IN  IF region.text # "" /\ ~region.isImage
        THEN LET st1 == Call(st, fails_at, Op("search_for", page_num, NoRect, region.text),
                             st.doc)
                 text_instances == search_for(st.doc.pages[page_num + 1], region.text)
                 hit == FirstIntersecting(text_instances, region_rect)
                 rect == IF hit # 0 THEN text_instances[hit] ELSE region_rect
             IN  Call(st1, fails_at, Op("add_redact_annot", page_num, rect, ""),
                      AddRedactAnnot(st1.doc, page_num, rect))
        ELSE Call(st, fails_at, Op("add_redact_annot", page_num, region_rect, ""),
                  AddRedactAnnot(st.doc, page_num, region_rect))

RECURSIVE RedactRegions(_, _, _, _, _)
RedactRegions(st, fails_at, page_num, page_regions, i) ==
    IF i > Len(page_regions) \/ st.raised THEN st
    ELSE RedactRegions(RedactRegion(st, fails_at, page_num, page_regions[i]),
                       fails_at, page_num, page_regions, i + 1)

RECURSIVE RedactPages_DeletedToo(_, _, _, _, _, _)
\* The loop as it would be without the test of line 65
RedactPages_DeletedToo(st, fails_at, groups, i, total_pages, deleted_pages) ==
    IF i > Len(groups) \/ st.raised THEN st
    ELSE LET page_num == groups[i][1]
         IN  IF page_num >= total_pages
             THEN RedactPages_DeletedToo(st, fails_at, groups, i + 1, total_pages,
                                         deleted_pages)
             ELSE LET st1 == Call(st, fails_at, Op("load_page", page_num, NoRect, ""),
                                  st.doc)
                      st2 == RedactRegions(st1, fails_at, page_num, groups[i][2], 1)
                      st3 == Call(st2, fails_at,
                                  Op("apply_redactions", page_num, NoRect, ""),
                                  ApplyRedactions(st2.doc, page_num))
                  IN  RedactPages_DeletedToo(st3, fails_at, groups, i + 1, total_pages,
                                             deleted_pages)

RECURSIVE RedactPages(_, _, _, _, _, _)
\* The loop over regions_by_page (lines 62-103)
RedactPages(st, fails_at, groups, i, total_pages, deleted_pages) ==
    IF i > Len(groups) \/ st.raised THEN st
    ELSE LET page_num == groups[i][1]
         IN  IF page_num >= total_pages \/ page_num \in deleted_pages
             THEN RedactPages(st, fails_at, groups, i + 1, total_pages, deleted_pages)
             ELSE LET st1 == Call(st, fails_at, Op("load_page", page_num, NoRect, ""),
                                  st.doc)
                      st2 == RedactRegions(st1, fails_at, page_num, groups[i][2], 1)
                      st3 == Call(st2, fails_at,
                                  Op("apply_redactions", page_num, NoRect, ""),
                                  ApplyRedactions(st2.doc, page_num))
                  IN  RedactPages(st3, fails_at, groups, i + 1, total_pages,
                                  deleted_pages)

RECURSIVE SortedReverse_Ascending(_)
\* The order as it would be without reverse=True
SortedReverse_Ascending(S) ==
    IF S = {} THEN <<>>
    ELSE LET m == CHOOSE x \in S : \A y \in S : x <= y
         IN  <<m>> \o SortedReverse_Ascending(S \ {m})

RECURSIVE SortedReverse(_)
\* sorted(deleted_pages, reverse=True) (line 106)
SortedReverse(S) ==
    IF S = {} THEN <<>>
    ELSE LET m == CHOOSE x \in S : \A y \in S : y <= x
         IN  <<m>> \o SortedReverse(S \ {m})

RECURSIVE DeletePages_Unchecked(_, _, _, _)
\* The loop as it would be without the test of line 107: the engine raises
\* for a page it does not have
DeletePages_Unchecked(st, fails_at, order, i) ==
    IF i > Len(order) \/ st.raised THEN st
    ELSE IF order[i] < Len(st.doc.pages)
         THEN DeletePages_Unchecked(
                  Call(st, fails_at, Op("delete_page", order[i], NoRect, ""),
                       DeletePage(st.doc, order[i])),
                  fails_at, order, i + 1)
         ELSE [Call(st, fails_at, Op("delete_page", order[i], NoRect, ""), st.doc)
                   EXCEPT !.raised = TRUE]

RECURSIVE DeletePages(_, _, _, _)
\* The loop over the pages to delete (lines 106-108)
DeletePages(st, fails_at, order, i) ==
    IF i > Len(order) \/ st.raised THEN st
    ELSE IF order[i] < Len(st.doc.pages)
         THEN DeletePages(Call(st, fails_at, Op("delete_page", order[i], NoRect, ""),
                               DeletePage(st.doc, order[i])),
                          fails_at, order, i + 1)
         ELSE DeletePages(st, fails_at, order, i + 1)

\* bm.get(key, default)
Get(bm, key, default) == IF key \in DOMAIN bm THEN bm[key] ELSE default

\* toc (lines 115-122): level, title, 1-based page
TocOf(bookmarks) ==
    [i \in 1..Len(bookmarks) |->
        <<Get(bookmarks[i], "level", 1), Get(bookmarks[i], "title", "Untitled"),
          Get(bookmarks[i], "page", 0) + 1>>]

\* if bookmarks: ... doc.set_toc(toc); print(...) (lines 114-124)
AddBookmarks(st, fails_at, bookmarks) ==
    IF bookmarks = <<>> \/ st.raised THEN st
    ELSE LET st1 == Call(st, fails_at, Op("set_toc", 0 - 1, NoRect, ""),
                         SetToc(st.doc, TocOf(bookmarks)))
         IN  IF st1.raised THEN st1
             ELSE [st1 EXCEPT !.stdout =
                       Append(st1.stdout,
                              "Added " \o ToString(Len(bookmarks)) \o " bookmarks")]

\* doc.save(output_path, garbage=4, deflate=True) (line 127),
\* doc.tobytes(deflate=True, garbage=4) (line 562 of pdf_analyzer.py): what
\* is written is the document as it is then
Save(st, fails_at, op) ==
    LET st1 == Call(st, fails_at, Op(op, 0 - 1, NoRect, ""), st.doc)
    IN  IF st1.raised THEN st1 ELSE [st1 EXCEPT !.saved = <<st1.doc>>]

\* doc.close()
Close(st, fails_at) ==
    LET st1 == Call(st, fails_at, Op("close", 0 - 1, NoRect, ""), st.doc)
    IN  IF st1.raised THEN st1 ELSE [st1 EXCEPT !.open = FALSE]

\* The run as it would be if the pages were deleted before the redaction
redact_DeleteFirst(pdf, data, fails_at) ==
    LET deleted_pages == {data.deletedPages[i] : i \in 1..Len(data.deletedPages)}
        st1 == OpenDocument(pdf, fails_at)
        total_pages == Len(st1.doc.pages)
        st2 == DeletePages(st1, fails_at, SortedReverse(deleted_pages), 1)
        st3 == RedactPages(st2, fails_at, RegionsByPage(data.regions, 1, <<>>), 1,
                           Len(st2.doc.pages), {})
        st4 == AddBookmarks(st3, fails_at, data.bookmarks)
        st5 == Save(st4, fails_at, "save")
        st6 == Close(st5, fails_at)
    IN  IF st6.raised THEN st6
        ELSE [st6 EXCEPT !.stdout = Append(st6.stdout, "Redacted PDF saved to out.pdf")]

\* main() of pdf-redact.py from line 45 on: the run it makes for the
\* request data on the document pdf
redact(pdf, data, fails_at) ==
    LET deleted_pages == {data.deletedPages[i] : i \in 1..Len(data.deletedPages)}
        st1 == OpenDocument(pdf, fails_at)
        total_pages == Len(st1.doc.pages)
        st2 == RedactPages(st1, fails_at, RegionsByPage(data.regions, 1, <<>>), 1,
                           total_pages, deleted_pages)
        st3 == DeletePages(st2, fails_at, SortedReverse(deleted_pages), 1)
        st4 == AddBookmarks(st3, fails_at, data.bookmarks)
        st5 == Save(st4, fails_at, "save")
        st6 == Close(st5, fails_at)
    IN  IF st6.raised THEN st6
        ELSE [st6 EXCEPT !.stdout = Append(st6.stdout, "Redacted PDF saved to out.pdf")]

RECURSIVE MarkRegions(_, _, _, _, _)
\* The loop over the regions of a page in export_pdf (lines 546-556 of
\* pdf_analyzer.py)
MarkRegions(st, fails_at, page_num, regions, i) ==
    IF i > Len(regions) \/ st.raised THEN st
    ELSE LET rect == RegionRect(regions[i])
         IN  MarkRegions(Call(st, fails_at, Op("add_redact_annot", page_num, rect, ""),
                              AddRedactAnnot(st.doc, page_num, rect)),
                         fails_at, page_num, regions, i + 1)

RECURSIVE ExportPages(_, _, _, _)
\* The loop over regions_by_page in export_pdf (lines 540-559)
ExportPages(st, fails_at, groups, i) ==
    IF i > Len(groups) \/ st.raised THEN st
    ELSE LET page_num == groups[i][1]
         IN  IF page_num >= Len(st.doc.pages)
             THEN ExportPages(st, fails_at, groups, i + 1)
             ELSE LET st1 == Call(st, fails_at, Op("load_page", page_num, NoRect, ""),
                                  st.doc)
                      st2 == MarkRegions(st1, fails_at, page_num, groups[i][2], 1)
                      st3 == Call(st2, fails_at,
                                  Op("apply_redactions", page_num, NoRect, ""),
                                  ApplyRedactions(st2.doc, page_num))
                  IN  ExportPages(st3, fails_at, groups, i + 1)

\* PDFAnalyzer.export_pdf(pdf_path, deleted_regions): the run it makes; saved
\* holds the document whose bytes it returns
export_pdf(pdf, deleted_regions, fails_at) ==
    LET st1 == OpenDocument(pdf, fails_at)
        st2 == ExportPages(st1, fails_at, RegionsByPage(deleted_regions, 1, <<>>), 1)
        st3 == Save(st2, fails_at, "tobytes")
    IN  Close(st3, fails_at)

\* A page of a document to redact: the index it has in the file, the boxes
\* search_for finds on it, the redaction marks on it, the boxes redacted
RPage(orig, found) == [orig |-> orig, found |-> found, marks |-> <<>>, redacted |-> <<>>]

\* CONFIDENTIAL twice on page 0, once on page 1; SECRET on page 2
RPages ==
    <<RPage(0, [t \in {"CONFIDENTIAL"} |-> <<Rect(10, 10, 110, 22), Rect(10, 100, 110, 112)>>]),
      RPage(1, [t \in {"CONFIDENTIAL"} |-> <<Rect(50, 50, 150, 62)>>]),
      RPage(2, [t \in {"SECRET"} |-> <<Rect(20, 30, 80, 42)>>])>>

\* The documents redacted: three pages with a table of contents, ten pages
\* of which the last seven have no text,
\* and a file that cannot be opened
RedactFiles ==
    { [path |-> "three.pdf", openable |-> TRUE, pages |-> RPages,
       toc |-> << <<1, "Old", 1>>, <<2, "Older", 3>> >>],
      [path |-> "ten.pdf", openable |-> TRUE,
       pages |-> RPages \o [i \in 1..7 |-> RPage(i + 2, [t \in {} |-> <<>>])],
       toc |-> <<>>],
      [path |-> "missing.pdf", openable |-> FALSE, pages |-> <<>>, toc |-> <<>>] }

\* A region of a request; text "" stands for a region without text (or with
\* an empty one), isImage FALSE for one without the flag
RegionOf(page, x, y, width, height, text, isImage) ==
    [page |-> page, x |-> x, y |-> y, width |-> width, height |-> height,
     text |-> text, isImage |-> isImage]

\* The regions requested.  On page 0: a box over the second CONFIDENTIAL
\* only (Hit), one over neither (Miss), one that touches the first at its
\* lower edge (Touch), one of no width (Thin).  On page 1: an image region
\* that carries text, a region without text.  On page 2: text the page has
\* not in that place (Absent), text it has there (Secret).  Beyond: on a
\* page that neither document has.
R ==
    [Hit    |-> RegionOf(0, 0, 95, 200, 20, "CONFIDENTIAL", FALSE),
     Miss   |-> RegionOf(0, 300, 300, 50, 20, "CONFIDENTIAL", FALSE),
     Touch  |-> RegionOf(0, 10, 22, 100, 10, "CONFIDENTIAL", FALSE),
     Thin   |-> RegionOf(0, 10, 10, 0, 12, "CONFIDENTIAL", FALSE),
     Image  |-> RegionOf(1, 40, 40, 200, 100, "CONFIDENTIAL", TRUE),
     NoText |-> RegionOf(1, 0, 0, 30, 30, "", FALSE),
     Absent |-> RegionOf(2, 20, 30, 60, 12, "CONFIDENTIAL", FALSE),
     Secret |-> RegionOf(2, 0, 0, 100, 100, "SECRET", FALSE),
     Beyond |-> RegionOf(12, 0, 0, 10, 10, "SECRET", FALSE)]

\* The runs made: a document, a request (its regions, its pages to delete in
\* any order and with repetitions, its bookmarks, one of them without page
\* and level), and the call of the engine that raises: none (0), or one of
\* the first twelve
RedactInputs ==
    [pdf : RedactFiles,
     data : [regions :
                 { <<>>, <<R.Hit>>, <<R.Miss, R.Image, R.Hit>>, <<R.Touch, R.Thin>>,
                   <<R.Beyond, R.NoText, R.Secret>>, <<R.Image, R.Absent, R.NoText>>,
                   <<R.Secret, R.Beyond, R.Miss>> },
             deletedPages :
                 { <<>>, <<1>>, <<2, 0>>, <<0, 2, 0>>, <<3, 5, 7>>, <<7, 3, 5, 3>>,
                   <<12>>, <<1, 12, 2>> },
             bookmarks :
                 { <<>>,
                   <<[title |-> "Chapter 1", page |-> 5, level |-> 1]>>,
                   <<[title |-> "Part", page |-> 0, level |-> 1],
                     [title |-> "Section", page |-> 1, level |-> 2]>>,
                   <<[title |-> "Bare"]>> }],
     fails_at : 0..12]

InitRedact == Untouched /\ cIn \in RedactInputs /\ cOut = <<>>

\* python3 pdf-redact.py <input.pdf> <output.pdf> <regions.json>
Redact ==
    /\ cOut = <<>>
    /\ cOut' = <<[call |-> "redact", run |-> redact(cIn.pdf, cIn.data, cIn.fails_at)]>>
    /\ UNCHANGED <<AnalyzerVars, cIn>>

\* analyzer.export_pdf(pdf_path, deleted_regions)
ExportPdf ==
    /\ cOut = <<>>
    /\ cOut' = <<[call |-> "export_pdf",
                  run |-> export_pdf(cIn.pdf, cIn.data.regions, cIn.fails_at)]>>
    /\ UNCHANGED <<AnalyzerVars, cIn>>

SpecRedact == InitRedact /\ [][Redact \/ ExportPdf]_vars

-----------------------------------------------------------------------------
(* The two processes: main() of pdf_analyzer.py, which reads all of its
   standard input as one request, and XTTSStreamServer.run of xtts_stream.py,
   which reads its standard input line by line.  What the libraries beneath
   them do (decoding JSON, opening a document, downloading and loading a
   model, inference) is an outcome given with the input. *)

\* handle_request(request) (lines 578-609) on the global analyzer in the
\* state old: the state it leaves and what it returns or raises.  request is
\* the object decoded: method is None when it names none, args <<>> when it
\* has none, and args is a list.  export_pdf opens the document of
\* RedactFiles at the path; with no path the engine opens a new document
\* of no pages, which it refuses to save.
handle_request(request, old) ==
    LET method == request.method
        args == request.args
        Arg(i, default) == IF Len(args) >= i THEN args[i] ELSE default
        raises(message) == [old EXCEPT !.ok = FALSE, !.value = [error |-> message]]
    IN  IF method = "analyze"
        THEN IF Arg(1, None) = None
             THEN raises("expected str, bytes or os.PathLike object, not NoneType")
             ELSE analyze(FileOf(args[1]), Arg(2, 0), old)
        ELSE IF method = "export"
        THEN [old EXCEPT !.blocks = BlocksAfterExport(old.blocks),
                         !.value = export_text(old.blocks, Arg(1, {}))]
        ELSE IF method = "find_similar"
        THEN [old EXCEPT !.value = find_similar(old.blocks, Arg(1, None))]
        ELSE IF method = "render_page"
        THEN [old EXCEPT !.ok = render_page(old.doc, Arg(1, 0), Arg(3, None)).ok,
                         !.value = render_page(old.doc, Arg(1, 0), Arg(3, None)).value]
        ELSE IF method = "export_pdf"
        THEN IF Arg(1, None) = None THEN raises("cannot save with zero pages")
             ELSE LET pdf == CHOOSE pdf \in RedactFiles : pdf.path = args[1]
                      run == export_pdf(pdf, Arg(2, <<>>), 0)
                  IN  IF run.raised THEN raises("cannot open " \o args[1])
                      ELSE [old EXCEPT !.value = [pdf_base64 |-> run.saved[1]]]
        ELSE [old EXCEPT !.ok = unknown_method(method).ok,
                         !.value = unknown_method(method).value]

\* main() (lines 612-628) on the text stdin: the analyzer it leaves, what it
\* prints, and how the process ends, by returning from main (code 0) or by
\* sys.exit(1).  Of the text the model holds what json.loads makes of it:
\* json FALSE and the message of the error it raises, or json TRUE, the
\* type of the value decoded and, for a dict, the request.  A value that is
\* no dict has no get (line 580).
main(stdin, old) ==
    LET raises(message) == [old EXCEPT !.ok = FALSE, !.value = [error |-> message]]
        new == IF ~stdin.json THEN raises(stdin.error)
               ELSE IF stdin.type # "dict"
               THEN raises("'" \o stdin.type \o "' object has no attribute 'get'")
               ELSE handle_request(stdin.request, old)
    IN  [analyzer |-> new, stdout |-> <<new.value>>, status |-> "exited",
         code |-> IF new.ok THEN 0 ELSE 1]

\* FINE_TUNED_MODELS (lines 36-72), in the order of its keys; VOICES_DIR
\* (line 33) is E2A_PATH (line 26) joined with "voices"
FINE_TUNED_MODELS ==
    LET fine(name, age, sex) ==
            [name |-> name, repo |-> "drewThomasson/fineTunedTTSModels",
             sub |-> "xtts-v2/eng/" \o name \o "/",
             voice |-> "/Users/telltale/Projects/ebook2audiobook/voices/eng/"
                           \o age \o "/" \o sex \o "/" \o name \o "_24000.wav"]
    IN  <<fine("ScarlettJohansson", "adult", "female"),
          fine("DavidAttenborough", "elder", "male"),
          fine("MorganFreeman", "adult", "male"),
          fine("NeilGaiman", "adult", "male"),
          fine("RayPorter", "adult", "male"),
          fine("RosamundPike", "adult", "female"),
          [name |-> "internal", repo |-> "coqui/XTTS-v2", sub |-> "",
           voice |-> "/Users/telltale/Projects/ebook2audiobook/voices/eng/adult/male/KumarDahl_24000.wav"]>>

\* XTTSStreamServer.__init__ (lines 126-132) on a machine where mps, or
\* cuda, is or is not available: tts tells whether self.tts is set, latents
\* is the voice self.gpt_cond_latent and self.speaker_embedding were
\* computed for.  state, handled and replies are the position of run: not
\* started, reading or ended; the lines read; the responses sent for the
\* last line.
XTTSStreamServer(mps, cuda) ==
    [tts |-> FALSE, current_voice |-> None, latents |-> None,
     device |-> IF mps THEN "mps" ELSE IF cuda THEN "cuda" ELSE "cpu",
     state |-> "new", handled |-> 0, replies |-> <<>>]

\* send_response(response_type, data) (lines 92-97): message is what data
\* gives the response besides its type, "" when it gives nothing
send_response(s, type, message) ==
    [s EXCEPT !.replies = Append(@, [type |-> type, message |-> message])]

\* load_model(voice_name) (lines 134-235).  fails names what raises:
\* "download" (hf_hub_download), "config" (config.load_json), "checkpoint"
\* (load_checkpoint, after self.tts is assigned), "voice"
\* (get_conditioning_latents), "missing" (neither the voice file of the
\* model nor ref.wav exists, line 226), or "none".  No key of
\* INTERNAL_VOICES is a key of FINE_TUNED_MODELS, so the branch of line 201
\* is never taken.
load_model(s, voice, fails) ==
    LET model_info ==
            IF \E i \in 1..Len(FINE_TUNED_MODELS) : FINE_TUNED_MODELS[i].name = voice
            THEN FINE_TUNED_MODELS[CHOOSE i \in 1..Len(FINE_TUNED_MODELS) :
                                       FINE_TUNED_MODELS[i].name = voice]
            ELSE FINE_TUNED_MODELS[CHOOSE i \in 1..Len(FINE_TUNED_MODELS) :
                                       FINE_TUNED_MODELS[i].name = "internal"]
        voice_name == model_info.name
        failed(t, e) ==
            [server |-> send_response(t, "error", "Failed to load model: " \o e),
             success |-> FALSE]
        loading == send_response(s, "status", "Loading XTTS model (" \o s.device \o ")...")
    IN  IF fails = "download" THEN failed(s, fails)
        ELSE IF ~s.tts /\ fails = "config" THEN failed(loading, fails)
        ELSE IF ~s.tts /\ fails = "checkpoint"
        THEN failed([loading EXCEPT !.tts = TRUE], fails)
        ELSE LET s1 == IF s.tts THEN s
                       ELSE send_response([loading EXCEPT !.tts = TRUE],
                                          "status", "Model loaded")
                 s2 == send_response(s1, "status", "Loading voice: " \o voice_name)
             IN  IF s1.current_voice = voice_name
                 THEN [server |-> s1, success |-> TRUE]
                 ELSE IF fails = "voice" THEN failed(s2, fails)
                 ELSE IF fails = "missing"
                 THEN failed(s2, "Voice file not found: " \o model_info.voice)
                 ELSE [server |-> send_response(
                                      [s2 EXCEPT !.latents = voice_name,
                                                 !.current_voice = voice_name],
                                      "status", "Voice loaded: " \o voice_name),
                       success |-> TRUE]

\* generate_sentence(text, ...) (lines 237-310).  fails is "inference" when
\* the inference raises, "empty" when it gives no audio, or "none"; the
\* audio is stood for by the voice and the text.
generate_sentence(s, text, fails) ==
    IF ~s.tts \/ s.latents = None
    THEN send_response(s, "error", "Model not loaded")
    ELSE IF fails = "inference"
    THEN send_response(s, "error", "Generation failed: inference")
    ELSE IF fails = "empty"
    THEN send_response(s, "error", "No audio generated")
    ELSE send_response(s, "audio", s.latents \o ": " \o text)

\* The body of the loop of run (lines 317-359) for one line: blank, not
\* JSON (decoded is the message of the error json.loads raises), JSON that
\* is no object (decoded is the type of the value, which has no get), or a
\* request
run_line(s, line) ==
    IF line.kind = "blank" THEN s
    ELSE IF line.kind = "garbage"
    THEN send_response(s, "error", "Invalid JSON: " \o line.decoded)
    ELSE IF line.kind = "notdict"
    THEN send_response(s, "error",
                       "Error: '" \o line.decoded \o "' object has no attribute 'get'")
    ELSE IF line.action = "load"
    THEN LET loaded == load_model(s, line.voice, line.fails)
         IN  IF loaded.success
             THEN send_response(loaded.server, "loaded", loaded.server.current_voice)
             ELSE loaded.server
    ELSE IF line.action = "generate"
    THEN IF line.text = "" THEN send_response(s, "error", "No text provided")
         ELSE generate_sentence(s, line.text, line.fails)
    ELSE IF line.action = "stop" THEN send_response(s, "stopped", "")
    ELSE IF line.action = "quit" THEN [s EXCEPT !.state = "ended"]
    ELSE send_response(s, "error", "Unknown action: " \o line.action)

\* A line of the standard input of the server, as json.loads decodes it
Line(kind, decoded, action, voice, text, fails) ==
    [kind |-> kind, decoded |-> decoded, action |-> action, voice |-> voice,
     text |-> text, fails |-> fails]

\* The lines tried: a blank one; "not json" and "{"; "[1, 2]", "7" and
\* "null"; requests, the action None being that of a request that names none
Lines ==
    {Line("blank", "", None, "", "", "none"),
     Line("garbage", "Expecting value: line 1 column 1 (char 0)", None, "", "", "none"),
     Line("garbage",
          "Expecting property name enclosed in double quotes: line 1 column 2 (char 1)",
          None, "", "", "none"),
     Line("notdict", "list", None, "", "", "none"),
     Line("notdict", "int", None, "", "", "none"),
     Line("notdict", "NoneType", None, "", "", "none"),
     Line("request", "dict", "stop", "", "", "none"),
     Line("request", "dict", "quit", "", "", "none"),
     Line("request", "dict", "sing", "", "", "none"),
     Line("request", "dict", None, "", "", "none")}
    \cup {Line("request", "dict", "load", voice, "", fails) :
              voice \in {"ScarlettJohansson", "Nobody"},
              fails \in {"none", "download", "config", "checkpoint", "voice", "missing"}}
    \cup {Line("request", "dict", "generate", "", text, fails) :
              text \in {"", "Hello."}, fails \in {"none", "inference", "empty"}}

\* The lines the server reads in a behaviour
MaxLines == 3

\* Both processes started: the analyzer constructed at line 575, the server
\* at line 363, on any machine
InitProcesses ==
    /\ Untouched
    /\ cIn = <<>>
    /\ \E mps \in BOOLEAN, cuda \in BOOLEAN :
           cOut = [process |-> [status |-> "started", code |-> 0, stdout |-> <<>>],
                   server |-> XTTSStreamServer(mps, cuda)]

\* python3 pdf_analyzer.py with stdin on its standard input.  The process
\* ends with its request, so what Spec remembers of earlier calls is not
\* kept here.
Main(stdin) ==
    /\ cOut.process.status = "started"
    /\ cOut.process.stdout = <<>>
    /\ \E run \in {main(stdin, [pdf_path |-> pdf_path, doc |-> doc, ok |-> TRUE,
                                page_dimensions |-> page_dimensions, blocks |-> blocks,
                                categories |-> categories, fallback_idx |-> 0,
                                value |-> [none |-> TRUE]])} :
           /\ blocks' = run.analyzer.blocks
           /\ categories' = run.analyzer.categories
           /\ doc' = run.analyzer.doc
           /\ pdf_path' = run.analyzer.pdf_path
           /\ page_dimensions' = run.analyzer.page_dimensions
           /\ result' = [method |-> stdin.request.method, args |-> stdin.request.args,
                         ok |-> run.analyzer.ok, value |-> run.analyzer.value]
           /\ cOut' = [cOut EXCEPT !.process = [status |-> run.status, code |-> run.code,
                                                stdout |-> run.stdout]]
    /\ UNCHANGED <<analyzed, exported, nAnalyze, cIn>>

\* run: the response sent before the loop (line 314), with the keys of
\* FINE_TUNED_MODELS in their order
Ready ==
    /\ cOut.server.state = "new"
    /\ cOut' = [cOut EXCEPT !.server =
                    send_response([cOut.server EXCEPT !.state = "reading"], "ready",
                                  [voices |-> [i \in 1..Len(FINE_TUNED_MODELS) |->
                                                   FINE_TUNED_MODELS[i].name]])]
    /\ UNCHANGED <<AnalyzerVars, cIn>>

\* run: one turn of the loop, for the line read
ReadLine(line) ==
    /\ cOut.server.state = "reading"
    /\ cOut.server.handled < MaxLines
    /\ cOut' = [cOut EXCEPT !.server =
                    run_line([cOut.server EXCEPT !.handled = @ + 1, !.replies = <<>>],
                             line)]
    /\ UNCHANGED <<AnalyzerVars, cIn>>

\* run: the standard input is at its end, the loop is left
EndOfInput ==
    /\ cOut.server.state = "reading"
    /\ cOut' = [cOut EXCEPT !.server.state = "ended", !.server.replies = <<>>]
    /\ UNCHANGED <<AnalyzerVars, cIn>>

\* The analyzer process is given "not json" or "{", or "[1, 2]", "7" or
\* "null", or one request; the server reads any of Lines
NextProcesses ==
    \/ \E stdin \in
           {[json |-> FALSE, error |-> e, type |-> None,
             request |-> [method |-> None, args |-> <<>>]] :
                e \in {"Expecting value: line 1 column 1 (char 0)",
                       "Expecting property name enclosed in double quotes: line 1 column 2 (char 1)"}}
           \cup {[json |-> TRUE, error |-> "", type |-> t,
                  request |-> [method |-> None, args |-> <<>>]] :
                     t \in {"list", "int", "NoneType"}}
           \cup {[json |-> TRUE, error |-> "", type |-> "dict",
                  request |-> [method |-> "analyze", args |-> <<pdf.path, 0>>]] :
                     pdf \in Files}
           \cup {[json |-> TRUE, error |-> "", type |-> "dict", request |-> request] :
                     request \in {[method |-> "analyze", args |-> <<>>],
                                  [method |-> "export", args |-> <<{}>>],
                                  [method |-> "export", args |-> <<>>],
                                  [method |-> "find_similar", args |-> <<UnknownBlockId>>],
                                  [method |-> "render_page", args |-> <<0>>],
                                  [method |-> "render_page", args |-> <<0, 2, "b.pdf">>],
                                  [method |-> "export_pdf", args |-> <<"three.pdf", <<R.Hit>> >>],
                                  [method |-> "export_pdf", args |-> <<"missing.pdf", <<>> >>],
                                  [method |-> "export_pdf", args |-> <<>>],
                                  [method |-> "frobnicate", args |-> <<>>],
                                  [method |-> None, args |-> <<>>]}} :
           Main(stdin)
    \/ Ready
    \/ \E line \in Lines : ReadLine(line)
    \/ EndOfInput

SpecProcesses == InitProcesses /\ [][NextProcesses]_vars

-----------------------------------------------------------------------------
(* Properties of analyze, checked under Spec *)

AnalyzeReturned == result.method = "analyze" /\ result.ok

\* The blocks of blks whose category_id is id
Members(blks, id) == SelectSeq(blks, LAMBDA b : b.category_id = id)

\* C1: when analyze has returned, every block of the block list has a
\* non-empty category_id, and exactly one entry of the category map has that
\* id.
C1_CategoryCompleteness ==
    AnalyzeReturned =>
        \A i \in 1..Len(blocks) :
            /\ blocks[i].category_id # ""
            /\ Cardinality({k \in 1..Len(categories) :
                               categories[k].id = blocks[i].category_id}) = 1

\* analyze has returned blocks of several categories
C1_Witness ==
    /\ AnalyzeReturned
    /\ Len(blocks) >= 2
    /\ \E i, j \in 1..Len(blocks) : blocks[i].category_id # blocks[j].category_id

\* C2: when analyze has returned, after any earlier analyze calls, every
\* category of the map has block_count equal to the number of current blocks
\* carrying its id and char_count equal to the sum of their char_count.
C2_AggregatesMatchBlocks ==
    AnalyzeReturned =>
        \A k \in 1..Len(categories) :
            LET members == Members(blocks, categories[k].id)
            IN  /\ categories[k].block_count = Len(members)
                /\ categories[k].char_count = SumChars(members)

\* C3: when analyze has returned, the category map holds exactly the
\* categories of the types present among the current blocks, one each, and
\* none left from an earlier analyze.
C3_MapRebuilt ==
    AnalyzeReturned =>
        /\ CatIds(categories) = {blocks[i].category_id : i \in 1..Len(blocks)}
        /\ Cardinality(CatIds(categories)) = Len(categories)

\* C4: an analyze that returns, returns the blocks (field by field) and the
\* set of category ids that the first analyze of the same file with the same
\* page limit returned on this analyzer, whatever was analyzed before it.
C4_RepeatedAnalysis ==
    AnalyzeReturned =>
        \A a \in analyzed :
            a.args = result.args =>
                /\ result.value.blocks = a.blocks
                /\ CatIds(result.value.categories) = a.category_ids

-----------------------------------------------------------------------------
(* Properties of the classifier, the region detection and the baseline *)

\* The outcome of the first rule that matches, rules being <<predicate,
\* outcome>> pairs in priority order
FirstMatch(rules) ==
    rules[CHOOSE i \in 1..Len(rules) :
              rules[i][1] /\ \A j \in 1..(i - 1) : ~rules[j][1]][2]

CategoryTypes ==
    {"image", "footnote_ref", "header", "footer", "footnote", "caption", "title",
     "heading", "subheading", "quote", "body"}

\* The decision table of the classifier, baseline in tenths
ClassifyRules(b, baseline) ==
    << <<b.is_image, "image">>,
       <<b.is_superscript, "footnote_ref">>,
       <<10 * b.font_size < 7 * baseline /\ b.char_count < 5, "footnote_ref">>,
       <<b.region = "header", "header">>,
       <<b.region = "footer", "footer">>,
       <<b.region = "lower" /\ 100 * b.font_size < 95 * baseline, "footnote">>,
       <<100 * b.font_size < 85 * baseline /\ b.region # "lower", "caption">>,
       <<ExceedsTitleScale(b.font_size, baseline), "title">>,
       <<b.is_bold /\ 10 * b.font_size > 11 * baseline, "heading">>,
       <<b.is_bold /\ b.line_count <= 2 /\ b.char_count < 200, "subheading">>,
       <<b.is_italic /\ b.line_count > 2, "quote">>,
       <<TRUE, "body">> >>

\* C5: _classify_block returns, for every block and body size, the outcome
\* of the first matching rule of the decision table (the baseline being the
\* body size, or 10.0 without one), which is one of the eleven types; a
\* bold superscript text block of a font size under 0.7 of the baseline is a
\* footnote_ref.
C5_DecisionTable ==
    cOut # <<>> =>
        LET b == cIn.block
            baseline == BaselineOf(cIn.body_size)
        IN  /\ cOut[1] = FirstMatch(ClassifyRules(b, baseline))
            /\ cOut[1] \in CategoryTypes
            /\ (b.is_bold /\ b.is_superscript /\ ~b.is_image
                    /\ 10 * b.font_size < 7 * baseline) => cOut[1] = "footnote_ref"

\* A bold superscript block of tiny font size has been classified, one the
\* bold rules would have made a subheading
C5_Witness ==
    /\ cOut = <<"footnote_ref">>
    /\ cIn.block.is_bold /\ cIn.block.is_superscript /\ ~cIn.block.is_image
    /\ 10 * cIn.block.font_size < 7 * BaselineOf(cIn.body_size)
    /\ cIn.block.line_count <= 2 /\ cIn.block.char_count < 200

\* The decision table of the region, y and page_height in half units
RegionRules(y, page_height, text_len, line_count) ==
    << <<\/ 100 * y < 5 * page_height /\ text_len < 150 /\ line_count <= 3
         \/ 100 * y < 8 * page_height /\ text_len < 80 /\ line_count <= 2, "header">>,
       <<100 * y > 92 * page_height \/ (100 * y > 88 * page_height /\ text_len < 50),
         "footer">>,
       <<100 * y > 70 * page_height, "lower">>,
       <<TRUE, "body">> >>

\* C6: the region of a text block is the outcome of the first matching rule
\* of the region table; at y_pct 0.04 a text of length 100 on 2 lines is in
\* the header, and a text of length 200 is in the body.
C6_RegionTable ==
    cOut # <<>> =>
        /\ cOut[1] = FirstMatch(RegionRules(cIn.y, cIn.page_height, cIn.text_len,
                                            cIn.line_count))
        /\ (25 * cIn.y = cIn.page_height /\ cIn.text_len = 100 /\ cIn.line_count = 2)
               => cOut[1] = "header"
        /\ (25 * cIn.y = cIn.page_height /\ cIn.text_len = 200) => cOut[1] = "body"

\* The region of a long text at y_pct 0.04 has been detected
C6_Witness ==
    cOut = <<"body">> /\ 25 * cIn.y = cIn.page_height /\ cIn.text_len = 200

\* The blocks that count for the baseline: region body, not bold
Qualifies(b) == b.region = "body" /\ ~b.is_bold

\* The characters of the qualifying blocks of a font size
SizeTotal(blks, size) ==
    SumChars(SelectSeq(blks, LAMBDA b : Qualifies(b) /\ b.font_size = size))

\* The index of the first qualifying block of a font size
FirstOfSize(blks, size) ==
    CHOOSE i \in 1..Len(blks) :
        /\ Qualifies(blks[i]) /\ blks[i].font_size = size
        /\ \A j \in 1..(i - 1) : ~(Qualifies(blks[j]) /\ blks[j].font_size = size)

\* The font size of the most characters among the qualifying blocks, the
\* one met first winning a tie
DominantSize(blks) ==
    LET sizes == {blks[i].font_size : i \in {k \in 1..Len(blks) : Qualifies(blks[k])}}
    IN  CHOOSE s \in sizes :
            \A t \in sizes :
                \/ SizeTotal(blks, s) > SizeTotal(blks, t)
                \/ SizeTotal(blks, s) = SizeTotal(blks, t)
                       /\ FirstOfSize(blks, s) <= FirstOfSize(blks, t)

NoneQualifies(blks) == \A i \in 1..Len(blks) : ~Qualifies(blks[i])

\* C7 as claimed: the baseline is the dominant font size of the non-bold
\* blocks of region body, and 10.0 when there is no such block.
C7_BaselineAsClaimed ==
    cOut # <<>> =>
        cOut[1] = IF NoneQualifies(cIn) THEN 100 ELSE DominantSize(cIn)

\* C7 amended: the baseline is the dominant font size of the non-bold blocks
\* of region body, and 10.0 when there is no such block or when that size is
\* 0 (as when only image blocks qualify); the blocks of other regions and
\* the bold blocks can be left out without changing it.
C7_Baseline ==
    cOut # <<>> =>
        /\ cOut[1] = IF NoneQualifies(cIn) THEN 100
                     ELSE IF DominantSize(cIn) = 0 THEN 100 ELSE DominantSize(cIn)
        /\ cOut[1] = BaselineOf(BodySize(SelectSeq(cIn, Qualifies)))

\* The baseline has been computed for two body sizes that tie, the first
\* winning, beside a bold block of more characters than either
C7_Witness ==
    /\ cOut = <<120>>
    /\ Len(cIn) = 3
    /\ Qualifies(cIn[1]) /\ cIn[1].font_size = 120
    /\ Qualifies(cIn[2]) /\ cIn[2].font_size = 100
    /\ cIn[1].char_count = cIn[2].char_count
    /\ cIn[3].is_bold /\ cIn[3].char_count > cIn[1].char_count

-----------------------------------------------------------------------------
(* Properties of the export and of the similarity query *)

\* The indices of the blocks of an enabled category
Emitted(blks, enabled_set) == {i \in 1..Len(blks) : blks[i].category_id \in enabled_set}

\* Block i comes before block j: by (page, y, x), then by place in the list
Before(blks, i, j) ==
    LET a == blks[i]
        b == blks[j]
    IN  \/ a.page < b.page
        \/ a.page = b.page /\ a.y < b.y
        \/ a.page = b.page /\ a.y = b.y /\ a.x < b.x
        \/ a.page = b.page /\ a.y = b.y /\ a.x = b.x /\ i < j

\* The emitted blocks in order: the r-th is the one that r - 1 others precede
EmittedInOrder(blks, enabled_set) ==
    LET em == Emitted(blks, enabled_set)
    IN  [r \in 1..Cardinality(em) |->
             blks[CHOOSE i \in em :
                      Cardinality({j \in em : Before(blks, j, i)}) = r - 1]]

RECURSIVE TextOf(_, _)
\* The texts of the first r blocks of ordered, a newline between two, and one
\* more between two of different pages
TextOf(ordered, r) ==
    IF r = 0 THEN ""
    ELSE IF r = 1 THEN ordered[1].text
    ELSE TextOf(ordered, r - 1) \o "\n"
             \o (IF ordered[r].page # ordered[r - 1].page THEN "\n" ELSE "")
             \o ordered[r].text

\* C8: export_text returns the texts of exactly the blocks of an enabled
\* category, in ascending (page, y, x) order, joined by newlines, with one
\* empty line between two consecutive ones of different pages and none
\* before the first; char_count is the length of the text.
C8_ExportText ==
    result.method = "export" =>
        LET ordered == EmittedInOrder(blocks, result.args)
        IN  /\ result.value.text = TextOf(ordered, Len(ordered))
            /\ result.value.char_count = Len(result.value.text)

\* An export has emitted blocks of two pages, left a block out, and emitted
\* two blocks in another order than the list holds them
C8_Witness ==
    /\ result.method = "export"
    /\ \E i, j \in Emitted(blocks, result.args) : blocks[i].page # blocks[j].page
    /\ \E i, j \in Emitted(blocks, result.args) : i < j /\ Before(blocks, j, i)
    /\ Emitted(blocks, result.args) # 1..Len(blocks)
    /\ result.value.char_count > 0

\* C9: export_text and find_similar leave the block list and the category
\* map as they were, and an export of the enabled list of an earlier export
\* returns the text of the earlier one, whatever exports and similarity
\* queries came between.
C9_QueriesReadOnly ==
    [][(result'.method \in {"export", "find_similar"} /\ nAnalyze' = nAnalyze)
          => /\ blocks' = blocks
             /\ categories' = categories
             /\ page_dimensions' = page_dimensions
             /\ (exported.valid /\ result'.method = "export"
                     /\ result'.args = exported.enabled)
                    => result'.value.text = exported.text]_vars

\* An enabled list has been exported, another one after it, and then the
\* first again, of a block list that is not in (page, y, x) order
C9_Witness ==
    /\ result.method = "export"
    /\ exported.valid /\ exported.between /\ exported.again
    /\ result.args = exported.enabled
    /\ exported.text # ""
    /\ blocks # SortBlocks(blocks)

\* C10: find_similar returns no id and count 0 when no block has the id;
\* otherwise the ids of all the blocks of the target's category, the
\* target's included, in the order of the block list, and their number.
C10_FindSimilar ==
    result.method = "find_similar" =>
        LET holders == {i \in 1..Len(blocks) : blocks[i].id = result.args}
        IN  IF holders = {}
            THEN result.value = [similar_ids |-> <<>>, count |-> 0]
            ELSE LET target == blocks[CHOOSE i \in holders : \A j \in holders : i <= j]
                     same == SelectSeq(blocks,
                                 LAMBDA b : b.category_id = target.category_id)
                 IN  /\ result.value.similar_ids = [k \in 1..Len(same) |-> same[k].id]
                     /\ result.value.count = Len(same)
                     /\ \E k \in 1..Len(same) : same[k].id = result.args

\* The blocks similar to a block have been found: several but not all, and
\* the target not the first of them
C10_Witness ==
    /\ result.method = "find_similar"
    /\ result.value.count >= 2
    /\ result.value.count < Len(blocks)
    /\ result.value.similar_ids[1] # result.args
    /\ \E k \in 2..result.value.count : result.value.similar_ids[k] = result.args

-----------------------------------------------------------------------------
(* Properties of pdf-redact.py and export_pdf, checked under SpecRedact *)

\* A run of redact has ended, with or without an exception
RedactRan == cOut # <<>> /\ cOut[1].call = "redact"

\* A run of redact has ended without an exception
RedactCompleted == RedactRan /\ ~cOut[1].run.raised

\* The page indices requested for deletion, the page count of the input
RequestedDeletions == {cIn.data.deletedPages[i] : i \in 1..Len(cIn.data.deletedPages)}
TotalPages == Len(cIn.pdf.pages)

\* The original indices of the pages of a document, in its page order
Origs(d) == [i \in 1..Len(d.pages) |-> d.pages[i].orig]

\* The places of the log where op was called (on page, for OpsOn)
Ops(log, op) == {i \in 1..Len(log) : log[i].op = op}
OpsOn(log, op, page) == {i \in 1..Len(log) : log[i].op = op /\ log[i].page = page}

\* The calls of op on page, in the order of the log
CallsOn(log, op, page) == SelectSeq(log, LAMBDA e : e.op = op /\ e.page = page)

\* C11: whatever the order and the repetitions of the list of pages to
\* delete, the pages are deleted in descending index order, each at most
\* once, and the saved document holds exactly the original pages whose index
\* was not requested, in their original order; [3, 5, 7] of ten pages leaves
\* the pages 0, 1, 2, 4, 6, 8, 9.
C11_DescendingDeletion ==
    RedactRan =>
        LET run == cOut[1].run
            dels == SelectSeq(run.log, LAMBDA e : e.op = "delete_page")
        IN  /\ \A i, j \in 1..Len(dels) : i < j => dels[i].page > dels[j].page
            /\ ~run.raised =>
                 /\ {dels[i].page : i \in 1..Len(dels)}
                        = RequestedDeletions \cap 0..(TotalPages - 1)
                 /\ Origs(run.saved[1])
                        = SelectSeq([i \in 1..TotalPages |-> i - 1],
                                    LAMBDA k : k \notin RequestedDeletions)
                 /\ (TotalPages = 10 /\ RequestedDeletions = {3, 5, 7})
                        => Origs(run.saved[1]) = <<0, 1, 2, 4, 6, 8, 9>>

\* Pages 7, 3, 5, 3 of the ten-page document were requested, and the run
\* saved the other seven
C11_Witness ==
    /\ RedactCompleted
    /\ cIn.data.deletedPages = <<7, 3, 5, 3>>
    /\ TotalPages = 10
    /\ Len(cOut[1].run.saved[1].pages) = 7

\* A page is processed: it has a region, exists, and is not to be deleted
Processed(page) ==
    /\ \E i \in 1..Len(cIn.data.regions) : cIn.data.regions[i].page = page
    /\ page < TotalPages
    /\ page \notin RequestedDeletions

\* The rectangle a region is to be marked with on its page
IsTextRegion(region) == region.text # "" /\ ~region.isImage
MarkFor(region) ==
    LET matches == search_for(cIn.pdf.pages[region.page + 1], region.text)
        hits == {i \in 1..Len(matches) : Intersects(matches[i], RegionRect(region))}
    IN  IF IsTextRegion(region) /\ hits # {}
        THEN matches[CHOOSE i \in hits : \A j \in hits : i <= j]
        ELSE RegionRect(region)

\* C12: in a run that completes, the marks made on a processed page are,
\* region by region in the order of the request, the first match of the
\* region's text that intersects the requested rectangle, or the requested
\* rectangle when no match does or when the region is an image region or
\* has no text; the text is searched for once per text region and never
\* for another.
C12_OneMarkPerRegion ==
    RedactCompleted =>
        \A page \in 0..(TotalPages - 1) :
            Processed(page) =>
                LET regions == SelectSeq(cIn.data.regions, LAMBDA r : r.page = page)
                    marks == CallsOn(cOut[1].run.log, "add_redact_annot", page)
                    searches == CallsOn(cOut[1].run.log, "search_for", page)
                    searched == SelectSeq(regions, IsTextRegion)
                IN  /\ Len(marks) = Len(regions)
                    /\ \A i \in 1..Len(regions) : marks[i].rect = MarkFor(regions[i])
                    /\ Len(searches) = Len(searched)
                    /\ \A i \in 1..Len(searched) : searches[i].text = searched[i].text

\* A run has marked page 0 for a region whose text is found twice, the
\* second match only being in the rectangle, and for one whose rectangle no
\* match is in, and page 1 for an image region that carries text
C12_Witness ==
    /\ RedactCompleted
    /\ cIn.data.regions = <<R.Miss, R.Image, R.Hit>>
    /\ Processed(0) /\ Processed(1)
    /\ MarkFor(R.Hit) = Rect(10, 100, 110, 112)
    /\ CallsOn(cOut[1].run.log, "add_redact_annot", 0)[2].rect = Rect(10, 100, 110, 112)
    /\ CallsOn(cOut[1].run.log, "add_redact_annot", 0)[1].rect = RegionRect(R.Miss)

\* The calls made on a page
PageOps == {"load_page", "search_for", "add_redact_annot", "apply_redactions"}

\* C13: in every run, a page that is to be deleted is never loaded, searched,
\* marked or applied, whatever regions name it; these calls are made only on
\* pages that have a region and are not to be deleted.
C13_DeletedPagesUntouched ==
    RedactRan =>
        \A i \in 1..Len(cOut[1].run.log) :
            LET e == cOut[1].run.log[i]
            IN  e.op \in PageOps => e.page \notin RequestedDeletions /\ Processed(e.page)

\* A run has completed for a request with a region on a page to delete and a
\* region on a page to keep, which it redacted
C13_Witness ==
    /\ RedactCompleted
    /\ \E i \in 1..Len(cIn.data.regions) :
           /\ cIn.data.regions[i].page \in RequestedDeletions
           /\ cIn.data.regions[i].page < TotalPages
    /\ Ops(cOut[1].run.log, "apply_redactions") # {}
    /\ Ops(cOut[1].run.log, "delete_page") # {}

\* The request without the regions and the deletions beyond the last page
InRange(data) ==
    [data EXCEPT !.regions = SelectSeq(data.regions, LAMBDA r : r.page < TotalPages),
                 !.deletedPages = SelectSeq(data.deletedPages, LAMBDA p : p < TotalPages)]

\* C14: when the engine raises nothing, neither redact nor export_pdf raises
\* for a region or a deletion on a page index at or beyond the page count;
\* no call is made for it, and the run is the run of the request without
\* these regions and deletions.
C14_OutOfRangeSkipped ==
    (cOut # <<>> /\ cIn.pdf.openable /\ cIn.fails_at = 0) =>
        LET run == cOut[1].run
        IN  /\ ~run.raised
            /\ \A i \in 1..Len(run.log) :
                   run.log[i].op \in PageOps \cup {"delete_page"}
                       => run.log[i].page < TotalPages
            /\ run = IF cOut[1].call = "redact"
                     THEN redact(cIn.pdf, InRange(cIn.data), 0)
                     ELSE export_pdf(cIn.pdf, InRange(cIn.data).regions, 0)

\* A run of redact has completed for a request with a region and a deletion
\* beyond the last page, and has redacted and deleted other pages
C14_Witness ==
    /\ RedactCompleted
    /\ cIn.fails_at = 0
    /\ \E i \in 1..Len(cIn.data.regions) : cIn.data.regions[i].page >= TotalPages
    /\ \E p \in RequestedDeletions : p >= TotalPages
    /\ Ops(cOut[1].run.log, "apply_redactions") # {}
    /\ Ops(cOut[1].run.log, "delete_page") # {}

\* C15: a run that completes for a non-empty bookmark list saves a table of
\* contents of one entry per bookmark, in the order given, and nothing of
\* the table the document had; a bookmark's entry has its level, its title
\* and its page plus one, so a bookmark at page 5 is stored at page 6.
C15_TocReplaced ==
    (RedactCompleted /\ cIn.data.bookmarks # <<>>) =>
        LET toc == cOut[1].run.saved[1].toc
            bookmarks == cIn.data.bookmarks
        IN  /\ Len(toc) = Len(bookmarks)
            /\ \A i \in 1..Len(bookmarks) :
                   DOMAIN bookmarks[i] = {"title", "page", "level"} =>
                       /\ toc[i] = <<bookmarks[i].level, bookmarks[i].title,
                                     bookmarks[i].page + 1>>
                       /\ bookmarks[i].page = 5 => toc[i][3] = 6

\* A bookmark at page 5 was given for the document that has a table of
\* contents of two entries, and the run saved one entry, at page 6
C15_Witness ==
    /\ RedactCompleted
    /\ Len(cIn.pdf.toc) = 2
    /\ cIn.data.bookmarks = <<[title |-> "Chapter 1", page |-> 5, level |-> 1]>>
    /\ cOut[1].run.saved[1].toc = << <<1, "Chapter 1", 6>> >>

\* C20: in every run, the marks of a page come between its loading and its
\* one apply_redactions; every apply_redactions comes before every
\* delete_page, every delete_page before set_toc, all of them before save,
\* and save before close; nothing is called twice where once is due.  A run
\* that no exception ends applies each processed page once, saves once and
\* closes once.
C20_OrderOfCalls ==
    RedactRan =>
        LET log == cOut[1].run.log
            before(A, B) == \A i \in A, j \in B : i < j
        IN  /\ \A page \in 0..(TotalPages - 1) :
                   /\ Cardinality(OpsOn(log, "apply_redactions", page)) <= 1
                   /\ before(OpsOn(log, "add_redact_annot", page),
                             OpsOn(log, "apply_redactions", page))
                   /\ ~cOut[1].run.raised =>
                          (Processed(page)
                               <=> Cardinality(OpsOn(log, "apply_redactions", page)) = 1)
            /\ before(Ops(log, "add_redact_annot") \cup Ops(log, "apply_redactions"),
                      Ops(log, "delete_page"))
            /\ before(Ops(log, "delete_page"), Ops(log, "set_toc"))
            /\ before(Ops(log, "add_redact_annot") \cup Ops(log, "apply_redactions")
                          \cup Ops(log, "delete_page") \cup Ops(log, "set_toc"),
                      Ops(log, "save"))
            /\ before(Ops(log, "save"), Ops(log, "close"))
            /\ Cardinality(Ops(log, "set_toc")) <= 1
            /\ Cardinality(Ops(log, "save")) <= 1
            /\ Cardinality(Ops(log, "close")) <= 1
            /\ ~cOut[1].run.raised =>
                   /\ Cardinality(Ops(log, "save")) = 1
                   /\ Cardinality(Ops(log, "close")) = 1
                   /\ log[Len(log)].op = "close"
                   /\ log[Len(log) - 1].op = "save"

\* A run has marked and applied two pages, deleted a page, replaced the
\* table of contents, saved and closed
C20_Witness ==
    /\ RedactCompleted
    /\ Cardinality(Ops(cOut[1].run.log, "apply_redactions")) >= 2
    /\ Cardinality(Ops(cOut[1].run.log, "add_redact_annot")) >= 3
    /\ Ops(cOut[1].run.log, "delete_page") # {}
    /\ Ops(cOut[1].run.log, "set_toc") # {}
    /\ Ops(cOut[1].run.log, "save") # {}

-----------------------------------------------------------------------------
(* Properties of handle_request, checked under SpecRequests *)

\* C19: a request whose method handle_request does not know is answered by
\* a returned value, not an exception, whose error is "Unknown method: "
\* followed by the method name, and the analyzer's blocks, categories,
\* document handle, path and page dimensions are what they were.
C19_UnknownMethod ==
    [][result'.method \notin KnownMethods \cup {"none"} =>
           /\ result'.ok
           /\ result'.value = [error |-> "Unknown method: " \o result'.method]
           /\ blocks' = blocks
           /\ categories' = categories
           /\ doc' = doc
           /\ pdf_path' = pdf_path
           /\ page_dimensions' = page_dimensions]_vars

\* The method Analyze, which is not analyze, was asked of an analyzer that
\* holds an analysis
C19_Witness ==
    /\ result.method = "Analyze"
    /\ result.value = [error |-> "Unknown method: Analyze"]
    /\ blocks # <<>>
    /\ doc # None

\* C16: no call finishes leaving a document open; as far as analyze goes,
\* the analyzer holds no document handle once the call has ended, whether
\* it returned or raised.
C16_NoDocumentLeftOpen == result.method = "analyze" => doc = None

\* C17: an analyze call that raises leaves the blocks, the categories, the
\* page dimensions and the document handle either all as they were before
\* the call or all as they are in a new analyzer, never a part of its own
\* work nor a mixture of it with the analysis before.
C17_FailedAnalyzeLeavesNoPart ==
    [][(nAnalyze' = nAnalyze + 1 /\ ~result'.ok) =>
           \/ <<blocks', categories', page_dimensions', doc'>>
                  = <<blocks, categories, page_dimensions, doc>>
           \/ /\ blocks' = <<>>
              /\ categories' = <<>>
              /\ page_dimensions' = <<>>
              /\ doc' = None]_vars

-----------------------------------------------------------------------------
(* Properties of the processes, checked under SpecProcesses *)

\* The last line the server read was answered with an error, the analyzer
\* process answered its request with an error
ServerReportedFailure ==
    \E i \in 1..Len(cOut.server.replies) : cOut.server.replies[i].type = "error"
ProcessReportedFailure ==
    /\ cOut.process.stdout # <<>>
    /\ "error" \in DOMAIN cOut.process.stdout[1]

\* The server is still in its loop after a line it answered with an error
ServerStaysAvailable == ServerReportedFailure => cOut.server.state = "reading"

\* C18: a process that has answered a request with an error is still there
\* to read the next one: the analyzer process has not ended, the server is
\* still in its loop.
C18_ProcessesStayAvailable ==
    /\ ProcessReportedFailure => cOut.process.status = "started"
    /\ ServerStaysAvailable

-----------------------------------------------------------------------------
(* Properties of the category types, checked under Spec *)

\* The eleven category types
ElevenTypes ==
    {"image", "footnote_ref", "header", "footer", "footnote", "caption", "title",
     "heading", "subheading", "quote", "body"}

\* C23: whatever was analyzed, the category map has at most eleven entries,
\* each of one of the eleven types, with the colour the semantic table gives
\* the type and the name of the type, never "Other (...)"; every block that
\* has a category has one of these; and the categories of an analysis that
\* returned were made without the fallback palette, whose index is still 0.
C23_OnlyKnownTypes ==
    /\ DOMAIN CATEGORY_TYPE_COLORS = ElevenTypes
    /\ Len(categories) <= 11
    /\ \A i \in 1..Len(categories) :
           /\ \E type \in ElevenTypes :
                  /\ categories[i].id = CatId(type)
                  /\ categories[i].color = CATEGORY_TYPE_COLORS[type]
                  /\ categories[i].name = CategoryName(type)
           /\ Prefix(categories[i].name, 7) # "Other ("
    /\ \A i \in 1..Len(blocks) :
           blocks[i].category_id # "" =>
               \E type \in ElevenTypes : blocks[i].category_id = CatId(type)
    /\ AnalyzeReturned =>
           generate_categories(result.value.blocks, <<>>).fallback_idx = 0

\* Two analyses have returned and the map holds a category of each of the
\* eleven types
C23_Witness ==
    /\ AnalyzeReturned
    /\ nAnalyze >= 2
    /\ {categories[i].id : i \in 1..Len(categories)} = {CatId(type) : type \in ElevenTypes}

-----------------------------------------------------------------------------
(* Properties of the image blocks and of the block ids, checked under
   SpecImages *)

\* The image blocks extracted, the box of a block rounded to integers, and
\* the boxes each source gave for a page that are 20 by 20 or more
ImageBlocks == SelectSeq(cOut[1], LAMBDA b : b.is_image)
RoundedBox(b) ==
    <<RoundHalfEven(b.x), RoundHalfEven(b.y), RoundHalfEven(b.x + b.width),
      RoundHalfEven(b.y + b.height)>>
LargeBoxes(page) ==
    {bbox \in {page.image_info[i] : i \in 1..Len(page.image_info)}
               \cup {page.blocks[i].bbox : i \in {j \in 1..Len(page.blocks) :
                                                     page.blocks[j].type = 1}} :
        bbox # <<>> /\ bbox[3] - bbox[1] >= 40 /\ bbox[4] - bbox[2] >= 40}

\* C21: every image block extracted is 20 units or more in width and in
\* height; no two image blocks of a page have the same box once its four
\* coordinates are rounded to the nearest integer, whichever source each
\* came from; and each page has a block for every rounded box of 20 by 20
\* or more that either source gave for it, so that a box seen on two pages
\* gives a block on each.
C21_ImagesFilteredAndDeduplicated ==
    cOut # <<>> =>
        /\ \A i \in 1..Len(ImageBlocks) :
               ImageBlocks[i].width >= 2 * 20 /\ ImageBlocks[i].height >= 2 * 20
        /\ \A i, j \in 1..Len(ImageBlocks) :
               (i # j /\ ImageBlocks[i].page = ImageBlocks[j].page)
                   => RoundedBox(ImageBlocks[i]) # RoundedBox(ImageBlocks[j])
        /\ \A p \in 1..Len(cIn) :
               {RoundedBox(ImageBlocks[i]) :
                    i \in {j \in 1..Len(ImageBlocks) : ImageBlocks[j].page = p - 1}}
                   = {<<RoundHalfEven(bbox[1]), RoundHalfEven(bbox[2]),
                        RoundHalfEven(bbox[3]), RoundHalfEven(bbox[4])>> :
                          bbox \in LargeBoxes(cIn[p])}

\* The first page has a box in its image list and, among its layout
\* fragments, a box that rounds to the same and one that is too small; the
\* second page has the first box again: one block was made on each page
C21_Witness ==
    /\ cOut # <<>>
    /\ cIn[1].image_info = << <<200, 200, 600, 600>> >>
    /\ cIn[1].blocks = <<ImageRaw(<<201, 199, 600, 601>>), ImageRaw(<<10, 10, 48, 100>>)>>
    /\ Len(ImageBlocks) = 2
    /\ ImageBlocks[1].page = 0 /\ ImageBlocks[2].page = 1
    /\ RoundedBox(ImageBlocks[1]) = RoundedBox(ImageBlocks[2])

\* C22: the blocks extracted from a document have ids that differ from one
\* another.
C22_BlockIdsUnique ==
    cOut # <<>> =>
        \A i, j \in 1..Len(cOut[1]) : i # j => cOut[1][i].id # cOut[1][j].id

=============================================================================
